---------------------------- MODULE Spec2Model ----------------------------
(***************************************************************************)
(* A model of Fundless (jtseven/Fundless): the savings-plan scheduler, the *)
(* order planning and execution pipeline of trading.py, the settlement     *)
(* tracker of messages.py and the trade ledger of analytics.py.            *)
(*                                                                         *)
(* Numbers that are floats in the program are exact rationals <<n, d>>     *)
(* here (d > 0, lowest terms), so a sum "equal to 1" is an equality.       *)
(***************************************************************************)
EXTENDS Integers, Sequences, FiniteSets, TLC

VARIABLES
    inp,        \* the arguments and the environment of the function under study
    outp,       \* what the function returned
    stage,      \* "input" before the call, "done" after it; otherwise the
                \* name of the part of the program that is running
    lock,       \* SavingsPlanScheduler.lock: TRUE while held
    tpc,        \* position of each invocation of SavingsPlanScheduler.job
    conv,       \* state of the savings_plan ConversationHandler
    jobq,       \* application.job_queue: the pending check_orders jobs
    batch,      \* the batches handed to the job queue, in order of submission
    exst,       \* exchange side: status of every order created so far
    sched,      \* what each invocation of job met and did
    trk,        \* bot_data["next_state"], the queued StateChangeUpdate, and per
                \* batch the checks made and how the tracker left it
    trades_file,        \* trades.csv: the persisted ledger, rows of text
    trades_df,          \* PortfolioAnalytics.trades_df: the ledger in memory
    order_ids_file,     \* order_ids.csv: the pending-order references
    order_ids,          \* PortfolioAnalytics.order_ids, as read from the file
    last_trades_update, \* PortfolioAnalytics.last_trades_update
    now,                \* the wall clock, in minutes
    orders,             \* exchange side: status of the order behind each id
    passes,             \* reconciliation passes made over settled, aged references
    rfr,        \* the refresh thread: position in run_updates or update_trades_df, locals
    wtr,        \* a caller inside add_trade: position, locals, trades it has written
    mkt,        \* the market data of PortfolioAnalytics and the clock it is stamped with
    hist        \* the price history of PortfolioAnalytics and what refreshes it

pureVars  == <<inp, outp, stage>>
schedVars == <<lock, tpc, conv, jobq, batch, exst, sched, trk>>
ledVars   == <<trades_file, trades_df, order_ids_file, order_ids,
               last_trades_update, now, orders, passes>>
extVars   == <<mkt, hist>>
auxVars   == <<rfr, wtr, mkt, hist>>
vars      == <<inp, outp, stage, lock, tpc, conv, jobq, batch, exst, sched, trk,
               trades_file, trades_df, order_ids_file, order_ids,
               last_trades_update, now, orders, passes, rfr, wtr, mkt, hist>>

-----------------------------------------------------------------------------
(* Exact rational arithmetic.                                              *)

Abs(x) == IF x < 0 THEN -x ELSE x

RECURSIVE GCD(_, _)
GCD(a, b) == IF b = 0 THEN a ELSE GCD(b, a % b)

Q(n, d) ==
    LET g == GCD(Abs(n), Abs(d))
        s == IF d < 0 THEN -1 ELSE 1
    IN  IF n = 0 THEN <<0, 1>> ELSE <<(s * n) \div g, (s * d) \div g>>

QInt(n)    == <<n, 1>>
QAdd(a, b) == Q(a[1] * b[2] + b[1] * a[2], a[2] * b[2])
QSub(a, b) == Q(a[1] * b[2] - b[1] * a[2], a[2] * b[2])
QMul(a, b) == Q(a[1] * b[1], a[2] * b[2])
QDiv(a, b) == Q(a[1] * b[2], a[2] * b[1])
QLe(a, b)  == a[1] * b[2] <= b[1] * a[2]
QLt(a, b)  == a[1] * b[2] < b[1] * a[2]
QMax(a, b) == IF QLe(a, b) THEN b ELSE a
QZero      == <<0, 1>>
QOne       == <<1, 1>>

RECURSIVE QSum(_)
QSum(s) == IF s = <<>> THEN QZero ELSE QAdd(Head(s), QSum(Tail(s)))

Reverse(s) == [i \in 1..Len(s) |-> s[Len(s) + 1 - i]]
Range(s)   == {s[i] : i \in 1..Len(s)}

\* numpy: weights / weights.sum()
Normalize(ws) == LET t == QSum(ws) IN [i \in 1..Len(ws) |-> QDiv(ws[i], t)]

\* numpy argsort (ascending; ties keep their input order)
ArgSort(ws) ==
    LET n == Len(ws)
    IN  CHOOSE p \in [1..n -> 1..n] :
            /\ \A i, j \in 1..n : i # j => p[i] # p[j]
            /\ \A i, j \in 1..n : i < j =>
                   \/ QLt(ws[p[i]], ws[p[j]])
                   \/ (ws[p[i]] = ws[p[j]] /\ p[i] < p[j])

-----------------------------------------------------------------------------
(* Symbols.  str.lower() and str.upper() over the symbols of the model.    *)

LowerSyms == {"eth", "ada", "busd"}
UpperOf   == [s \in LowerSyms |->
                 CASE s = "eth" -> "ETH" [] s = "ada" -> "ADA" [] s = "busd" -> "BUSD"]
UpperSyms == {UpperOf[s] : s \in LowerSyms}
AllSyms   == LowerSyms \cup UpperSyms

Lower(s) == IF s \in LowerSyms THEN s ELSE CHOOSE l \in LowerSyms : UpperOf[l] = s
Upper(s) == UpperOf[Lower(s)]

\* bot_config.trading_bot_config.base_symbol (config.py: lower-cased)
BaseSymbol == "busd"
CoinSyms   == LowerSyms \ {BaseSymbol}

\* f'{symbol.upper()}/{base_symbol.upper()}'
Ticker(s) == <<Upper(s), Upper(BaseSymbol)>>

-----------------------------------------------------------------------------
(* The exchange as the order pipeline sees it.  mk maps every coin to      *)
(*   listed : its pair is in exchange.symbols                              *)
(*   ticker : fetch_ticker answers (FALSE: it raises ccxt BadSymbol)       *)
(*   price  : fetch_ticker(...)['last']                                    *)
(*   minAmt, minCost : markets[ticker]['limits'][...]['min']               *)

IsBase(s) == Lower(s) = Lower(BaseSymbol)

\* volume = base_currency_volume or savings_plan_cost  (0 stands for None)
OrDefault(v, cost) == IF v = 0 THEN cost ELSE v

\* analytics.convert, fiat -> base symbol: amount / to_symbol_price;
\* the amount itself when both names are equal (basePrice = 1)
BaseCurrencyToBaseSymbol(amount, basePrice) ==
    IF basePrice = 1 THEN QInt(amount) ELSE QDiv(QInt(amount), QInt(basePrice))

\* One pass of the loop body of check_order_limits for a non-base symbol.
\* (variant: the cost limit is never looked at)
LimitVerdict_NoCostLimit(s, w, V, mk) ==
    LET m      == mk[Lower(s)]
        cost   == QMul(w, V)
        amount == QDiv(cost, QInt(m.price))
    IN  IF ~m.ticker THEN "Ticker not available"
        ELSE IF QLe(amount, QInt(m.minAmt)) THEN "Order amount too low"
        ELSE "ok"

LimitVerdict(s, w, V, mk) ==
    LET m      == mk[Lower(s)]
        cost   == QMul(w, V)
        amount == QDiv(cost, QInt(m.price))
    IN  IF ~m.ticker THEN "Ticker not available"
        ELSE IF QLe(amount, QInt(m.minAmt)) THEN "Order amount too low"
        ELSE IF QLe(cost, QInt(m.minCost)) THEN "Order cost too low"
        ELSE "ok"

RECURSIVE LimitsFrom(_, _, _, _, _, _, _)
LimitsFrom(i, symbols, weights, V, mk, failFast, acc) ==
    IF i > Len(symbols) THEN acc
    ELSE IF IsBase(symbols[i])
         THEN LimitsFrom(i + 1, symbols, weights, V, mk, failFast, acc)
    ELSE LET v == LimitVerdict(symbols[i], weights[i], V, mk)
             a == [fail   |-> Append(acc.fail, symbols[i]),
                   reason |-> Append(acc.reason, v)]
         IN  IF v = "ok"
             THEN LimitsFrom(i + 1, symbols, weights, V, mk, failFast, acc)
             ELSE IF failFast THEN a
             ELSE LimitsFrom(i + 1, symbols, weights, V, mk, failFast, a)

check_order_limits(symbols, weights, V, mk, failFast) ==
    LimitsFrom(1, symbols, weights, V, mk, failFast, [fail |-> <<>>, reason |-> <<>>])

\* The for-loop of volume_corrected_weights over the symbols that are left
\* once the lowest weight is dropped; i counts from 1.
RECURSIVE CorrectFrom(_, _, _, _, _, _)
CorrectFrom(i, sortedSymbols, sortedWeights, V, mk, lastReason) ==
    IF i > Len(sortedSymbols)
    THEN [symbols |-> <<>>, weights |-> <<>>, reason |-> lastReason]
    ELSE LET n            == Len(sortedSymbols)
             checkSymbols == SubSeq(sortedSymbols, i, n)
             checkWeights == Normalize(SubSeq(sortedWeights, i, n))
             check        == check_order_limits(checkSymbols, checkWeights, V, mk, TRUE)
             sorter       == ArgSort(checkWeights)
         IN  IF Len(check.fail) = 0
             THEN [symbols |-> [j \in 1..Len(checkSymbols) |->
                                    checkSymbols[Reverse(sorter)[j]]],
                   weights |-> Reverse(checkWeights),
                   reason  |-> "None"]
             ELSE CorrectFrom(i + 1, sortedSymbols, sortedWeights, V, mk, check.reason)

\* (variant: the heaviest symbol is dropped first)
DropOrder_Heaviest(ws) == Reverse(ArgSort(ws))

\* sorter = weights.argsort(): the order in which symbols are dropped
DropOrder(ws) == ArgSort(ws)

volume_corrected_weights(symbols, rawWeights, volumeArg, cost, basePrice, mk) ==
    LET V       == BaseCurrencyToBaseSymbol(OrDefault(volumeArg, cost), basePrice)
        weights == Normalize(rawWeights)
        first   == check_order_limits(symbols, weights, V, mk, TRUE)
        sorter  == DropOrder(weights)
        rest    == SubSeq(sorter, 2, Len(sorter))
    IN  IF Len(first.fail) > 0
        THEN CorrectFrom(1, [j \in 1..Len(rest) |-> symbols[rest[j]]],
                            [j \in 1..Len(rest) |-> weights[rest[j]]],
                         V, mk, first.reason)
        ELSE [symbols |-> symbols, weights |-> weights, reason |-> <<>>]

-----------------------------------------------------------------------------
(* Bounded inputs.                                                         *)

MaxWeight == 3          \* raw weights are 1..MaxWeight before normalisation

\* sequences of distinct symbols
DistinctSeqs(S) ==
    UNION {{q \in [1..n -> S] : \A i, j \in 1..n : i # j => q[i] # q[j]} :
               n \in 1..Cardinality(S)}

RawWeights(n) == [1..n -> {QInt(w) : w \in 1..MaxWeight}]

MarketEntries ==
    [listed : {TRUE}, ticker : BOOLEAN, price : {1, 2},
     minAmt : {0, 30}, minCost : {0, 50}]

\* a market whose ticker cannot be fetched has no price worth varying
Markets ==
    {mk \in [CoinSyms -> MarketEntries] :
        \A c \in CoinSyms : ~mk[c].ticker =>
            mk[c].price = 1 /\ mk[c].minAmt = 0 /\ mk[c].minCost = 0}

Volumes     == {0, 100}     \* 0: no volume given, the savings plan cost is used
PlanCosts   == {60}         \* savings_plan_cost
BasePrices  == {1, 2}       \* price of the base symbol in the base currency

NoOut == [none |-> TRUE]

SchedIdle ==
    /\ lock = FALSE /\ tpc = <<>> /\ conv = "END" /\ jobq = <<>>
    /\ batch = <<>> /\ exst = <<>> /\ sched = <<>> /\ trk = <<>>

AuxIdle == rfr = <<>> /\ wtr = <<>> /\ mkt = <<>> /\ hist = <<>>

LedIdle ==
    /\ trades_file = <<>> /\ trades_df = <<>> /\ order_ids_file = <<>>
    /\ order_ids = <<>> /\ last_trades_update = 0 /\ now = 0
    /\ orders = <<>> /\ passes = 0

-----------------------------------------------------------------------------
(* TradingBot.volume_corrected_weights on bounded inputs.                  *)

CorrInit ==
    /\ \E syms \in DistinctSeqs(LowerSyms) :
       \E ws \in RawWeights(Len(syms)) :
       \E mk \in Markets, v \in Volumes, c \in PlanCosts, bp \in BasePrices :
           inp = [symbols |-> syms, weights |-> ws, volume |-> v, cost |-> c,
                  basePrice |-> bp, mk |-> mk]
    /\ outp = NoOut
    /\ stage = "input"
    /\ SchedIdle /\ LedIdle /\ AuxIdle

CorrApply ==
    /\ stage = "input"
    /\ outp' = volume_corrected_weights(inp.symbols, inp.weights, inp.volume,
                                        inp.cost, inp.basePrice, inp.mk)
    /\ stage' = "done"
    /\ UNCHANGED <<inp, schedVars, ledVars, auxVars>>

CorrNext == CorrApply

SpecCorr == CorrInit /\ [][CorrNext]_vars

\* the volume the checks of the call were made with
CorrVolume == BaseCurrencyToBaseSymbol(OrDefault(inp.volume, inp.cost), inp.basePrice)

\* symbol s with weight w is below one of its exchange minimums
BelowMinimum(s, w) ==
    /\ ~IsBase(s)
    /\ inp.mk[Lower(s)].ticker
    /\ LET cost   == QMul(w, CorrVolume)
           amount == QDiv(cost, QInt(inp.mk[Lower(s)].price))
       IN  \/ QLt(cost, QInt(inp.mk[Lower(s)].minCost))
           \/ QLt(amount, QInt(inp.mk[Lower(s)].minAmt))

\* C3: a non-empty result of volume_corrected_weights holds no symbol whose
\* notional (weight * volume) is below its min_notional or whose amount
\* (notional / price) is below its min_amount, with the returned weights.
C3_NoSymbolBelowMinimum ==
    (stage = "done" /\ Len(outp.symbols) > 0) =>
        /\ Len(outp.weights) = Len(outp.symbols)
        /\ \A i \in 1..Len(outp.symbols) :
               ~BelowMinimum(outp.symbols[i], outp.weights[i])

\* C3 witness: a symbol was dropped, and a coin that is left has a minimum to meet
C3_Witness ==
    /\ stage = "done"
    /\ Len(outp.symbols) > 0
    /\ Len(outp.symbols) < Len(inp.symbols)
    /\ \E i \in 1..Len(outp.symbols) :
           /\ ~IsBase(outp.symbols[i])
           /\ inp.mk[outp.symbols[i]].minCost > 0

RECURSIVE QSumOver(_, _)
QSumOver(S, f) ==
    IF S = {} THEN QZero
    ELSE LET x == CHOOSE y \in S : TRUE IN QAdd(f[x], QSumOver(S \ {x}, f))

CorrN == Len(inp.symbols)
CorrW == Normalize(inp.weights)

\* the sets of k positions that hold k highest weights
TopSets(k) ==
    {S \in SUBSET (1..CorrN) :
        /\ Cardinality(S) = k
        /\ \A i \in S, j \in (1..CorrN) \ S : QLe(CorrW[j], CorrW[i])}

\* the weight of position i once the weights of S are renormalised to sum to 1
SubWeight(S, i) == QDiv(CorrW[i], QSumOver(S, CorrW))

\* every symbol of S is at or above its minimums (none is below one)
PassesAtOrAbove(S) ==
    \A i \in S :
        \/ IsBase(inp.symbols[i])
        \/ /\ inp.mk[Lower(inp.symbols[i])].ticker
           /\ ~BelowMinimum(inp.symbols[i], SubWeight(S, i))

\* every symbol of S is strictly above its minimums
PassesAbove(S) ==
    \A i \in S :
        \/ IsBase(inp.symbols[i])
        \/ LET m      == inp.mk[Lower(inp.symbols[i])]
               cost   == QMul(SubWeight(S, i), CorrVolume)
               amount == QDiv(cost, QInt(m.price))
           IN  /\ m.ticker
               /\ QLt(QInt(m.minCost), cost)
               /\ QLt(QInt(m.minAmt), amount)

PositionOf(sym) == CHOOSE i \in 1..CorrN : inp.symbols[i] = sym

\* the result is the largest passing set of highest weights, under Passes
LargestTopSet(Passes(_)) ==
    IF Len(outp.symbols) > 0
    THEN /\ Len(outp.weights) = Len(outp.symbols)
         /\ Range(outp.symbols) \subseteq Range(inp.symbols)
         /\ LET S == {PositionOf(outp.symbols[j]) : j \in 1..Len(outp.symbols)}
            IN  /\ Cardinality(S) = Len(outp.symbols)
                /\ S \in TopSets(Cardinality(S))
                /\ Passes(S)
                /\ \A j \in 1..Len(outp.symbols) :
                       outp.weights[j] = SubWeight(S, PositionOf(outp.symbols[j]))
                /\ \A k \in (Cardinality(S) + 1)..CorrN :
                       \E T \in TopSets(k) : ~Passes(T)
    ELSE /\ outp.weights = <<>>
         /\ outp.reason # "None" /\ Len(outp.reason) > 0
         /\ \A k \in 1..CorrN : \E T \in TopSets(k) : ~Passes(T)

\* symbols [A, B], weights [0.6, 0.4], volume 100, B.min_notional 50
CorrExample ==
    /\ inp.symbols = <<"eth", "ada">>
    /\ inp.weights = <<QInt(3), QInt(2)>>
    /\ CorrVolume = QInt(100)
    /\ inp.mk["ada"].minCost = 50 /\ inp.mk["ada"].ticker
    /\ inp.mk["eth"].ticker /\ inp.mk["eth"].minAmt = 0

CorrExampleResult ==
    CorrExample => (outp.symbols = <<"eth">> /\ outp.weights = <<QOne>>)

\* C4 as stated: the result of volume_corrected_weights is the k highest-weight
\* symbols, for the largest k whose renormalised set has no symbol below a
\* minimum, each with its own renormalised weight; the empty set with a reason
\* when no k passes; and the example yields ([A], [1.0]).
C4_LargestSetNotBelowMinimum ==
    stage = "done" => (LargestTopSet(PassesAtOrAbove) /\ CorrExampleResult)

\* C4 amended: the same, where a set passes only if every symbol is strictly
\* above its minimums (a symbol exactly at a minimum is dropped).
C4_LargestSetStrictlyAboveMinimum ==
    stage = "done" => (LargestTopSet(PassesAbove) /\ CorrExampleResult)

\* C4 witness: the example, with B dropped and A left with weight 1
C4_Witness ==
    /\ stage = "done"
    /\ CorrExample
    /\ outp.symbols = <<"eth">>
    /\ outp.weights = <<QOne>>

-----------------------------------------------------------------------------
(* PortfolioAnalytics.fetch_index_weights.                                 *)
(*   cfg.weighting : portfolio_weighting                                   *)
(*   cfg.cherry    : cherry_pick_symbols (lower case)                      *)
(*   cfg.custom    : custom_weights, a table symbol -> weight              *)
(*   markets       : the market snapshot, symbol -> market_cap             *)
(* Market caps are 12th powers, so that every root taken is exact.         *)

Weightings == {"equal", "custom", "market_cap", "sqrt_market_cap",
               "sqrt_sqrt_market_cap", "cbrt_market_cap"}
MarketCapWeightings == Weightings \ {"equal", "custom"}

MarketCaps == {1, 4096}

\* np.sqrt (k = 2), np.cbrt (k = 3) on the values that occur
Root(x, k) == CHOOSE r \in 0..64 : r ^ k = x

ApplyRoot(weighting, x) ==
    CASE weighting = "sqrt_market_cap"      -> Root(x, 2)
      [] weighting = "sqrt_sqrt_market_cap" -> Root(Root(x, 2), 2)
      [] weighting = "cbrt_market_cap"      -> Root(x, 3)
      [] OTHER                              -> x

\* 0.0 / 0.0
QNaN == <<0, 0>>

\* symbols = None
NoSymbols == <<"None">>

\* weights = weights / weights.sum(); 0/0 is nan in every entry
ScaleToOne(raw) ==
    IF QSum(raw) = QZero
    THEN [status |-> "ok", weights |-> [i \in 1..Len(raw) |-> QNaN]]
    ELSE [status |-> "ok", weights |-> Normalize(raw)]

fetch_index_weights(symbolsArg, cfg, markets) ==
    LET symbols == IF symbolsArg = NoSymbols THEN cfg.cherry
                   ELSE [i \in 1..Len(symbolsArg) |-> Lower(symbolsArg[i])]
        n       == Len(symbols)
        inIndex(sym) == sym \in Range(cfg.cherry)
        \* .item() raises ValueError unless exactly one row matches
        noRow   == \E i \in 1..n : inIndex(symbols[i]) /\ symbols[i] \notin DOMAIN markets
        raw     ==
            CASE cfg.weighting = "equal" ->
                     [i \in 1..n |-> IF inIndex(symbols[i])
                                     THEN Q(1, Len(cfg.cherry)) ELSE QZero]
              [] cfg.weighting = "custom" ->
                     [i \in 1..n |-> IF symbols[i] \in DOMAIN cfg.custom
                                     THEN cfg.custom[symbols[i]] ELSE QZero]
              [] OTHER ->
                     [i \in 1..n |-> IF inIndex(symbols[i])
                                     THEN QInt(ApplyRoot(cfg.weighting, markets[symbols[i]]))
                                     ELSE QZero]
    IN  IF cfg.weighting \in MarketCapWeightings /\ noRow
        THEN [status |-> "ValueError", symbols |-> <<>>, weights |-> <<>>]
        ELSE [status  |-> ScaleToOne(raw).status,
              symbols |-> symbols,
              weights |-> ScaleToOne(raw).weights]

MaxCustomWeight == 2

\* tables on a subset of the index (config.py check_custom_weights)
CustomTables(cherry) ==
    UNION {[D -> {QInt(w) : w \in 0..MaxCustomWeight}] : D \in SUBSET Range(cherry)}

MarketTables == UNION {[D -> MarketCaps] : D \in SUBSET LowerSyms}

FixedMarkets == [s \in LowerSyms |-> 1]

WeightConfigs ==
    UNION {
        {[weighting |-> w, cherry |-> ch, custom |-> cu, markets |-> mt] :
            cu \in (IF w = "custom" THEN CustomTables(ch) ELSE {<<>>}),
            mt \in (IF w \in MarketCapWeightings THEN MarketTables ELSE {FixedMarkets})}
        : w \in Weightings, ch \in DistinctSeqs(LowerSyms)}

UpperInputs == {<<"ETH", "ada">>, <<"BUSD">>}

WeightInit ==
    /\ \E c \in WeightConfigs :
       \E syms \in {NoSymbols} \cup DistinctSeqs(LowerSyms) \cup UpperInputs :
           inp = [symbols |-> syms, cfg |-> c]
    /\ outp = NoOut
    /\ stage = "input"
    /\ SchedIdle /\ LedIdle /\ AuxIdle

WeightApply ==
    /\ stage = "input"
    /\ outp' = fetch_index_weights(inp.symbols, inp.cfg, inp.cfg.markets)
    /\ stage' = "done"
    /\ UNCHANGED <<inp, schedVars, ledVars, auxVars>>

WeightNext == WeightApply

SpecWeight == WeightInit /\ [][WeightNext]_vars

\* the symbols the call works on
WeightSymbols ==
    IF inp.symbols = NoSymbols THEN inp.cfg.cherry
    ELSE [i \in 1..Len(inp.symbols) |-> Lower(inp.symbols[i])]

\* a symbol that is due a non-zero weight under the scheme
Eligible(sym) ==
    CASE inp.cfg.weighting = "equal"  -> sym \in Range(inp.cfg.cherry)
      [] inp.cfg.weighting = "custom" ->
             sym \in DOMAIN inp.cfg.custom /\ QLt(QZero, inp.cfg.custom[sym])
      [] OTHER -> sym \in Range(inp.cfg.cherry) /\ sym \in DOMAIN inp.cfg.markets

\* C8: with at least one eligible symbol in the input, fetch_index_weights
\* returns non-negative weights that sum to 1; under equal all index symbols of
\* the input get the same weight; under custom a symbol absent from the table
\* gets weight 0.
C8_WeightsSumToOne ==
    (stage = "done" /\ \E i \in 1..Len(WeightSymbols) : Eligible(WeightSymbols[i])) =>
        /\ outp.status = "ok"
        /\ Len(outp.weights) = Len(WeightSymbols)
        /\ \A i \in 1..Len(outp.weights) :
               outp.weights[i] # QNaN /\ QLe(QZero, outp.weights[i])
        /\ QSum(outp.weights) = QOne
        /\ inp.cfg.weighting = "equal" =>
               \A i, j \in 1..Len(WeightSymbols) :
                   (WeightSymbols[i] \in Range(inp.cfg.cherry) /\
                    WeightSymbols[j] \in Range(inp.cfg.cherry))
                       => outp.weights[i] = outp.weights[j]
        /\ inp.cfg.weighting = "custom" =>
               \A i \in 1..Len(WeightSymbols) :
                   WeightSymbols[i] \notin DOMAIN inp.cfg.custom
                       => outp.weights[i] = QZero

-----------------------------------------------------------------------------
(* TradingBot.allocation_error and TradingBot.rebalancing_weights.         *)
(* index_balance and fetch_index_weights belong to PortfolioAnalytics;     *)
(* index_balance is declared a coroutine function there, and trading.py    *)
(* uses what it returns as the tuple (symbols, amounts, values,            *)
(* allocations): the model hands that tuple over.                          *)
(*   index.symbols : index_df symbols (upper case), by allocation          *)
(*   index.values  : the current value of each                             *)

\* (variant: the error is taken against the weight, not against the weight's
\* share of the portfolio value)
allocation_error_NoTotal(index, cfg) ==
    LET fw      == fetch_index_weights(index.symbols, cfg, cfg.markets)
        n       == Len(index.symbols)
    IN  IF fw.status # "ok" THEN [status |-> fw.status]
        ELSE [status        |-> "ok",
              symbols       |-> fw.symbols,
              index_weights |-> fw.weights,
              absolute      |-> [i \in 1..n |-> QSub(index.values[i], fw.weights[i])]]

allocation_error(index, cfg) ==
    LET fw      == fetch_index_weights(index.symbols, cfg, cfg.markets)
        n       == Len(index.symbols)
        total   == QSum(index.values)
    IN  IF fw.status # "ok" THEN [status |-> fw.status]
        ELSE [status        |-> "ok",
              symbols       |-> fw.symbols,
              index_weights |-> fw.weights,
              absolute      |-> [i \in 1..n |->
                                    QSub(index.values[i], QMul(fw.weights[i], total))]]

\* (variant: negative volumes are not clipped)
ClipAtZero_NoClip(volumes) == volumes

\* volumes.clip(min=0)
ClipAtZero(volumes) == [i \in 1..Len(volumes) |-> QMax(QZero, volumes[i])]

rebalancing_weights(volumeArg, index, cfg) ==
    LET volume  == QInt(OrDefault(volumeArg, cfg.cost))
        ae      == allocation_error(index, cfg)
        n       == Len(ae.symbols)
        raw     == [i \in 1..n |->
                       QSub(QMul(volume, ae.index_weights[i]), ae.absolute[i])]
        clipped == ClipAtZero(raw)
        rebalancing_volume == QSum(clipped)
        volumes == IF QLt(rebalancing_volume, volume)
                   THEN [i \in 1..n |->
                            QAdd(clipped[i],
                                 QMul(QSub(volume, rebalancing_volume), ae.index_weights[i]))]
                   ELSE clipped
    IN  IF ae.status # "ok" THEN [status |-> ae.status]
        ELSE IF QNaN \in Range(ae.index_weights) \/ QSum(volumes) = QZero
             THEN [status |-> "ok", symbols |-> ae.symbols,
                   weights |-> [i \in 1..n |-> QNaN]]
        ELSE [status |-> "ok", symbols |-> ae.symbols,
              weights |-> [i \in 1..n |-> QDiv(volumes[i], QSum(volumes))]]

MaxValue == 3       \* current values are multiples of 50 up to 50 * MaxValue

\* index_df: the symbols of the market snapshot that are in the index or
\* were bought, each with its current value
Portfolios(cfg) ==
    LET held == {s \in DistinctSeqs(LowerSyms) :
                    /\ Range(s) \subseteq DOMAIN cfg.markets
                    /\ Range(cfg.cherry) \cap DOMAIN cfg.markets \subseteq Range(s)}
    IN  UNION {{[symbols |-> [i \in 1..Len(s) |-> Upper(s[i])],
                 values  |-> v] :
                    v \in [1..Len(s) -> {QInt(50 * k) : k \in 0..MaxValue}]} : s \in held}

RebalConfigs ==
    {[weighting |-> c.weighting, cherry |-> c.cherry, custom |-> c.custom,
      markets |-> c.markets, cost |-> k] :
        c \in {w \in WeightConfigs :
                 /\ w.weighting \in {"equal", "custom", "sqrt_market_cap"}
                 /\ Len(w.cherry) >= 2
                 /\ w.cherry[1] = "eth"},
        k \in PlanCosts}

RebalInit ==
    /\ \E c \in RebalConfigs :
       \E ix \in Portfolios(c), v \in Volumes :
           inp = [volume |-> v, index |-> ix, cfg |-> c]
    /\ outp = NoOut
    /\ stage = "input"
    /\ SchedIdle /\ LedIdle /\ AuxIdle

RebalApply ==
    /\ stage = "input"
    /\ outp' = rebalancing_weights(inp.volume, inp.index, inp.cfg)
    /\ stage' = "done"
    /\ UNCHANGED <<inp, schedVars, ledVars, auxVars>>

RebalNext == RebalApply

SpecRebal == RebalInit /\ [][RebalNext]_vars

\* the target weights of the call
RebalTargets == fetch_index_weights(inp.index.symbols, inp.cfg, inp.cfg.markets)

TargetsSumToOne ==
    /\ RebalTargets.status = "ok"
    /\ QNaN \notin Range(RebalTargets.weights)
    /\ QSum(RebalTargets.weights) = QOne

-----------------------------------------------------------------------------
(* TradingBot.check_order_executable and TradingBot.weighted_buy_order.    *)
(* The exchange and the portfolio are the environment env of a call:       *)
(*   env.mk[c].listed : the pair c/BASE is in exchanges.active.symbols     *)
(*   env.mk[c].ticker : fetch_ticker answers (BadSymbol otherwise)         *)
(*   env.balance      : free (or total) balance of the base symbol         *)
(*   env.idx          : amount of the base symbol held in the index        *)
(*                      portfolio, -1 when index_df has no row for it      *)
(*   env.outcome[c]   : what create_market_buy_order does for c            *)

NoAdjust == <<"None">>      \* problems has no key 'adjusted_volume'

\* (variant: no pair is ever found missing)
Unavailable_None(symbols, mk) == {}

\* the batch positions whose ticker is not in exchanges.active.symbols
Unavailable(symbols, mk) ==
    {i \in 1..Len(symbols) : ~IsBase(symbols[i]) /\ ~mk[Lower(symbols[i])].listed}

\* if self.bot_config.trading_bot_config.base_symbol.upper() in symbols
BaseInBatch(symbols) == \E i \in 1..Len(symbols) : symbols[i] = Upper(BaseSymbol)

\* available > 0.98 * base_symbol_volume
SlightlyLower(available, V) == QLt(QMul(Q(98, 100), V), available)

check_order_executable(symbols, weights, V, env) ==
    LET missing      == Unavailable(symbols, env.mk)
        lim          == check_order_limits(symbols, weights, V, env.mk, FALSE)
        balance      == env.balance
        held         == QInt(env.idx)
        available    == QSub(balance, held)
        short        == BaseInBatch(symbols) /\ QLt(balance, QAdd(V, held))
        adjust       == short /\ SlightlyLower(available, V)
        insufficient == QLt(balance, V) \/ short
    IN  IF missing # {}
        THEN [raised |-> "none", fail |-> TRUE, occurred |-> TRUE,
              adjusted_volume |-> NoAdjust, skip_coins |-> <<>>,
              not_available |-> {symbols[i] : i \in missing}]
        ELSE IF BaseInBatch(symbols) /\ env.idx < 0
        THEN [raised |-> "ValueError"]
        ELSE [raised |-> "none",
              fail |-> insufficient /\ ~adjust,
              occurred |-> Len(lim.fail) > 0 \/ insufficient,
              adjusted_volume |-> IF adjust THEN available ELSE NoAdjust,
              skip_coins |-> lim.fail,
              not_available |-> {}]

\* The buying loop of weighted_buy_order from position i on.
\*   acc.calls : the create-order calls made, acc.ids / acc.symbols : placed
RECURSIVE BuyFrom(_, _, _, _, _, _)
BuyFrom(i, symbols, weights, volume, env, acc) ==
    IF i > Len(symbols) THEN [acc EXCEPT !.complete = TRUE]
    ELSE IF IsBase(symbols[i])
    THEN BuyFrom(i + 1, symbols, weights, volume, env,
                 [acc EXCEPT !.symbols = Append(@, Upper(symbols[i])),
                             !.ids = Append(@, [real |-> FALSE,
                                                cost |-> QMul(weights[i], volume)])])
    ELSE LET c      == Lower(symbols[i])
             amount == QDiv(QMul(weights[i], volume), QInt(env.mk[c].price))
             called == [acc EXCEPT !.calls = Append(@, [ticker |-> Ticker(symbols[i]),
                                                        amount |-> amount])]
         IN  IF ~env.mk[c].ticker THEN [acc EXCEPT !.raised = "BadSymbol"]
             ELSE IF env.outcome[c] = "InvalidOrder"
             THEN BuyFrom(i + 1, symbols, weights, volume, env,
                          [called EXCEPT !.invalid = Append(@, symbols[i])])
             ELSE IF env.outcome[c] = "BaseError"
             THEN BuyFrom(i + 1, symbols, weights, volume, env, called)
             ELSE BuyFrom(i + 1, symbols, weights, volume, env,
                          [called EXCEPT !.symbols = Append(@, Ticker(symbols[i])),
                                         !.ids = Append(@, [real |-> TRUE, id |-> i])])

weighted_buy_order(symbols, weights, volumeArg, cost, basePrice, env) ==
    LET V        == BaseCurrencyToBaseSymbol(OrDefault(volumeArg, cost), basePrice)
        problems == check_order_executable(symbols, weights, V, env)
        start    == [raised |-> "none", problems |-> problems, complete |-> FALSE,
                     ids |-> <<>>, symbols |-> <<>>, invalid |-> <<>>, calls |-> <<>>]
    IN  IF problems.raised # "none"
        THEN [start EXCEPT !.raised = problems.raised]
        ELSE IF problems.fail THEN start
        ELSE BuyFrom(1, symbols, weights,
                     IF problems.adjusted_volume = NoAdjust
                     THEN V ELSE problems.adjusted_volume,
                     env, start)

\* batches of one or two symbols; the base symbol in either spelling
BatchSyms == CoinSyms \cup {BaseSymbol, Upper(BaseSymbol)}

Batches ==
    {b \in DistinctSeqs(BatchSyms) :
        /\ Len(b) <= 2
        /\ ~({BaseSymbol, Upper(BaseSymbol)} \subseteq Range(b))}

BatchWeights(n) ==
    IF n = 1 THEN {<<QOne>>} ELSE {Normalize(<<QInt(1), QInt(1)>>),
                                   Normalize(<<QInt(3), QInt(1)>>)}

ExchangeEntries ==
    {m \in [listed : BOOLEAN, ticker : BOOLEAN, price : {2},
            minAmt : {0, 30}, minCost : {0}] :
        /\ m.ticker => m.listed
        /\ ~m.ticker => m.minAmt = 0}

Outcomes == {"ok", "InvalidOrder", "BaseError"}

\* the balance as a shortfall against the order volume, in percent of it
ShortfallPercents == {-50, 0, 1, 2, 3, 100}

HeldAmounts == {-1, 0, 50}

BalanceFor(V, p) == QMul(V, Q(100 - p, 100))

OrderInit ==
    /\ \E b \in Batches, v \in Volumes, c \in PlanCosts :
       \E ws \in BatchWeights(Len(b)) :
       \E mk \in [CoinSyms -> ExchangeEntries], oc \in [CoinSyms -> Outcomes] :
       \E p \in ShortfallPercents, h \in HeldAmounts :
           inp = [symbols |-> b, weights |-> ws, volume |-> v, cost |-> c,
                  basePrice |-> 1,
                  env |-> [mk |-> mk, outcome |-> oc, idx |-> h,
                           balance |-> BalanceFor(QInt(OrDefault(v, c)), p)]]
    /\ outp = NoOut
    /\ stage = "input"
    /\ SchedIdle /\ LedIdle /\ AuxIdle

OrderApply ==
    /\ stage = "input"
    /\ outp' = weighted_buy_order(inp.symbols, inp.weights, inp.volume,
                                  inp.cost, inp.basePrice, inp.env)
    /\ stage' = "done"
    /\ UNCHANGED <<inp, schedVars, ledVars, auxVars>>

OrderNext == OrderApply

SpecOrder == OrderInit /\ [][OrderNext]_vars

\* the order volume of the call, in the base symbol
OrderVolume == BaseCurrencyToBaseSymbol(OrDefault(inp.volume, inp.cost), inp.basePrice)

AllListed ==
    \A i \in 1..Len(inp.symbols) :
        ~IsBase(inp.symbols[i]) => inp.env.mk[Lower(inp.symbols[i])].ticker

\* the create-order calls of a batch bought with volume B
SizedFrom(B) ==
    \A k \in 1..Len(outp.calls) :
        \E i \in 1..Len(inp.symbols) :
            /\ outp.calls[k].ticker = Ticker(inp.symbols[i])
            /\ outp.calls[k].amount =
                   QDiv(QMul(inp.weights[i], B), QInt(inp.env.mk[Lower(inp.symbols[i])].price))

\* C5: with every pair tradable and the available balance B below the order
\* volume V, a shortfall V - B of at most 2% of V gives problems.fail = false,
\* problems.adjusted_volume = B and orders sized from B; a larger shortfall
\* gives problems.fail = true and no order is submitted.
C5_ShortfallTolerance ==
    (stage = "done" /\ AllListed /\ QLt(inp.env.balance, OrderVolume)) =>
        IF QLe(QSub(OrderVolume, inp.env.balance), QMul(Q(2, 100), OrderVolume))
        THEN /\ outp.raised = "none"
             /\ ~outp.problems.fail
             /\ outp.problems.adjusted_volume = inp.env.balance
             /\ SizedFrom(inp.env.balance)
        ELSE /\ outp.raised = "none"
             /\ outp.problems.fail
             /\ outp.calls = <<>>

\* some non-base symbol of the batch has no tradable pair
SomeUnavailable ==
    \E i \in 1..Len(inp.symbols) :
        ~IsBase(inp.symbols[i]) /\ ~inp.env.mk[Lower(inp.symbols[i])].listed

\* C9: if any non-base symbol of the batch has no tradable pair,
\* weighted_buy_order returns (it does not raise) a report with
\* problems.fail = true and no order ids, and it has made no create-order
\* call, not even for the symbols that are available.
C9_UnavailableSymbolFailsBatch ==
    (stage = "done" /\ SomeUnavailable) =>
        /\ outp.raised = "none"
        /\ outp.problems.fail
        /\ outp.ids = <<>>
        /\ outp.calls = <<>>

\* C9 witness: one pair is missing, the other symbol of the batch is tradable
\* and affordable, and the batch has failed
C9_Witness ==
    /\ stage = "done"
    /\ SomeUnavailable
    /\ \E i \in 1..Len(inp.symbols) :
           /\ ~IsBase(inp.symbols[i])
           /\ inp.env.mk[Lower(inp.symbols[i])].ticker
           /\ inp.env.outcome[Lower(inp.symbols[i])] = "ok"
    /\ QLe(OrderVolume, inp.env.balance)
    /\ outp.problems.fail

-----------------------------------------------------------------------------
(* The trade ledger of PortfolioAnalytics: update_order_ids and            *)
(* update_trades_df, as run by one cycle of update_data.                   *)
(* A csv file is a sequence of rows whose id is text.  In memory an id is  *)
(* a typed value <<type, text>>: pd.read_csv gives trades.csv the dtype    *)
(* str for the id column (csv_dtypes) and infers the dtype of the id       *)
(* column of order_ids.csv, int64 when every id is a number.               *)

NumericIds == {"101", "102"}    \* ids of exchanges that number their orders
TextIds    == {"x7"}            \* an id that is not a number
PendingIds == NumericIds \cup TextIds

TradesRefreshMinutes == 1       \* time() - 60
GraceMinutes == 10              \* pd.Timedelta(minutes=10)

\* pd.read_csv(self.order_ids_file, index_col=False, parse_dates=["date"])
ReadOrderIds(file) ==
    LET numbers == file # <<>> /\ \A i \in 1..Len(file) : file[i].id \in NumericIds
    IN  [i \in 1..Len(file) |->
            [id     |-> <<IF numbers THEN "int64" ELSE "str", file[i].id>>,
             symbol |-> file[i].symbol,
             date   |-> file[i].date]]

\* pd.read_csv(self.trades_file, dtype=self.csv_dtypes, parse_dates=["date"])
ReadTrades(file) ==
    [i \in 1..Len(file) |->
        [id |-> <<"str", file[i].id>>, symbol |-> file[i].symbol, date |-> file[i].date]]

\* Series.isin: a value is in the other column when an equal value is there;
\* the int64 101 and the str "101" are not equal
IsIn(id, df) == \E j \in 1..Len(df) : df[j].id = id

RECURSIVE SelectMissing(_, _)
SelectMissing(ids, df) ==
    IF ids = <<>> THEN <<>>
    ELSE IF IsIn(Head(ids).id, df) THEN SelectMissing(Tail(ids), df)
    ELSE <<Head(ids)>> \o SelectMissing(Tail(ids), df)

\* (variant: no reference counts as new)
StillPending_Never(date, clock) == FALSE

\* date > now - pd.Timedelta(minutes=10): the order is new and left to the
\* savings plan bot
StillPending(date, clock) == date > clock - GraceMinutes

\* the loop over missing_ids; add_trade(trades_df=..., id=str(id), ...)
RECURSIVE Reconcile(_, _, _, _)
Reconcile(missing, df, clock, exch) ==
    IF missing = <<>> THEN df
    ELSE LET r == Head(missing)
         IN  IF StillPending(r.date, clock)
             THEN Reconcile(Tail(missing), df, clock, exch)
             ELSE IF exch[r.id[2]] = "open"
             THEN Reconcile(Tail(missing), df, clock, exch)
             ELSE Reconcile(Tail(missing),
                            Append(df, [id |-> <<"str", r.id[2]>>,
                                        symbol |-> r.symbol, date |-> r.date]),
                            clock, exch)

\* sort_values("date"): rows by date, rows of one date in their old order
RECURSIVE SortByDate(_)
SortByDate(df) ==
    IF df = <<>> THEN <<>>
    ELSE LET m    == CHOOSE i \in 1..Len(df) :
                        /\ \A j \in 1..Len(df) : df[i].date <= df[j].date
                        /\ \A j \in 1..(i - 1) : df[j].date > df[i].date
             rest == [j \in 1..(Len(df) - 1) |-> IF j < m THEN df[j] ELSE df[j + 1]]
         IN  <<df[m]>> \o SortByDate(rest)

\* to_csv: every id is written as its text
WriteTrades(df) ==
    [i \in 1..Len(df) |-> [id |-> df[i].id[2], symbol |-> df[i].symbol, date |-> df[i].date]]

MaxPasses == 3          \* refresh cycles looked at
MaxClock  == 16         \* the clock stops here
StartClock == 12        \* the clock at construction
OrderDates == {0, 5}    \* an old order, and one that is new at the start

PendingFiles ==
    {f \in DistinctSeqs([id : PendingIds, symbol : {"ETH/BUSD"}, date : OrderDates]) :
        /\ Len(f) <= 2
        /\ \A i, j \in 1..Len(f) : i # j => f[i].id # f[j].id}

\* every pending reference is closed on the exchange and older than the grace
AllSettledAndAged ==
    \A i \in 1..Len(order_ids_file) :
        /\ orders[order_ids_file[i].id] = "closed"
        /\ order_ids_file[i].date <= now - GraceMinutes

LedInit ==
    /\ order_ids_file \in PendingFiles
    /\ trades_file \in {<<>>} \cup
           {<<[id |-> i, symbol |-> "ETH/BUSD", date |-> 0]>> : i \in PendingIds}
    /\ orders \in [PendingIds -> {"open", "closed", "canceled"}]
    /\ trades_df = <<>>
    /\ order_ids = <<>>
    /\ last_trades_update = 0
    /\ now = StartClock
    /\ passes = 0
    /\ inp = NoOut /\ outp = NoOut /\ stage = "ledger"
    /\ SchedIdle /\ AuxIdle

\* one cycle of update_data: update_order_ids, then update_trades_df
UpdateData ==
    /\ passes < MaxPasses
    /\ LET ids     == ReadOrderIds(order_ids_file)
           read    == ReadTrades(trades_file)
           missing == SelectMissing(ids, read)
           df      == Reconcile(missing, read, now, orders)
           update_file == df # read
       IN  /\ order_ids' = ids
           /\ IF last_trades_update < now - TradesRefreshMinutes
              THEN /\ trades_df' = IF update_file THEN SortByDate(df) ELSE df
                   /\ last_trades_update' = now
                   /\ trades_file' = IF update_file
                                     THEN WriteTrades(SortByDate(df)) ELSE trades_file
                   /\ passes' = IF AllSettledAndAged THEN passes + 1 ELSE passes
              ELSE UNCHANGED <<trades_df, last_trades_update, trades_file, passes>>
    /\ UNCHANGED <<order_ids_file, now, orders, pureVars, schedVars, auxVars>>

\* time passes
Advance ==
    /\ now < MaxClock
    /\ now' = now + 1
    /\ UNCHANGED <<trades_file, trades_df, order_ids_file, order_ids,
                   last_trades_update, orders, passes, pureVars, schedVars, auxVars>>

\* the exchange fills an open order
OrderCloses ==
    /\ \E i \in PendingIds :
           /\ orders[i] = "open"
           /\ orders' = [orders EXCEPT ![i] = "closed"]
    /\ UNCHANGED <<trades_file, trades_df, order_ids_file, order_ids,
                   last_trades_update, now, passes, pureVars, schedVars, auxVars>>

LedNext == UpdateData \/ Advance \/ OrderCloses

SpecLedger == LedInit /\ [][LedNext]_vars

\* C6: after two or more reconciliation passes over the same pending-order
\* file, each made with every pending order closed and older than the grace
\* window, the ledger holds exactly one Trade row per pending order id, in
\* memory and in the persisted file.
C6_ReconciliationIdempotent ==
    passes >= 2 =>
        \A i \in 1..Len(order_ids_file) :
            /\ Cardinality({j \in 1..Len(trades_df) :
                              trades_df[j].id[2] = order_ids_file[i].id}) = 1
            /\ Cardinality({j \in 1..Len(trades_file) :
                              trades_file[j].id = order_ids_file[i].id}) = 1

\* the rows that a step adds to trades.csv
NewTradeRows ==
    {k \in 1..Len(trades_file') :
        \A j \in 1..Len(trades_file) : trades_file[j].id # trades_file'[k].id}

\* C23: a Trade is written for an exchange order only when the exchange
\* reports the order closed, never for another status.
C23_TradeOnlyForClosedOrder ==
    [][\A k \in NewTradeRows : orders[trades_file'[k].id] = "closed"]_vars

\* the rows of a trades file that carry id
RowsOf(file, id) == {k \in 1..Len(file) : file[k].id = id}

-----------------------------------------------------------------------------
(* SavingsPlanScheduler.job, the savings_plan conversation of TelegramBot  *)
(* and the settlement tracker (TelegramBot.check_orders on the job queue,  *)
(* TradingBot.check_orders underneath).                                    *)
(*                                                                         *)
(* job calls message_bot.order_planning() and message_bot.execute_order()  *)
(* as plain functions, without the argument `automatic`; both are          *)
(* coroutine functions of TelegramBot.  JobPlan keeps the TypeError that   *)
(* the call raises as written next to the two results of order_planning,   *)
(* so that what is shown of the lock holds whichever way the call ends.    *)
(* TradingBot.check_orders calls analytics.add_trade without the required  *)
(* argument id: the call raises, and the exception is raised again by      *)
(* both check_orders.                                                      *)

Triggers == {"t1", "t2"}        \* two firings of the schedule

RetryLimit == 10                \* if n_retry > 10
FirstCheckDelay == 10           \* run_once(self.check_orders, when=10, ...)

\* (variant: the lock is handed out whether or not it is held)
TryAcquire_Always(held) == TRUE

\* self.lock.acquire(blocking=False)
TryAcquire(held) == ~held

\* (variant: one retry more before giving up)
RetryExhausted_Late(n) == n > RetryLimit + 1

RetryExhausted(n) == n > RetryLimit

\* (variant: the delay grows linearly)
WaitTime_Linear(n) == 60 * n

\* wait_time = 60 * n_retry * n_retry
WaitTime(n) == 60 * n * n

InCriticalSection == {"day", "plan", "ask", "exec", "fin"}

Polling == jobq # {}

\* what execute_order can end in: an exchange error, a failed pre-flight,
\* or a report with the orders that were placed
ExecOutcomes == {"BaseError", "fail", "placed"}

MaxOrders == 2          \* orders of a batch ordered in the conversation

\* order_report on a report without fail: the batch goes to the job queue
\* with retry count 1
Submit(ids, by) ==
    /\ batch' = Append(batch, [by |-> by, orders |-> ids, during |-> Polling])
    /\ exst' = [id \in DOMAIN exst \cup {x \in Range(ids) : x > 0} |->
                   IF id \in DOMAIN exst THEN exst[id] ELSE "open"]
    /\ jobq' = jobq \cup {[b |-> Len(batch) + 1, n |-> 1, when |-> FirstCheckDelay]}
    /\ trk' = [trk EXCEPT !.checks = Append(@, 0),
                          !.outcome = Append(@, "SUBMITTED"),
                          !.open_orders = Append(@, FALSE),
                          !.err = Append(@, "none"),
                          !.all_closed = Append(@, FALSE),
                          !.saw_open = Append(@, FALSE)]

\* execute_order and order_report, k orders placed
ExecuteOrder(o, by, k) ==
    IF o = "placed"
    THEN /\ Len(batch) < Cardinality(Triggers)
         /\ Submit([i \in 1..k |-> 10 * (Len(batch) + 1) + i], by)
    ELSE UNCHANGED <<batch, exst, jobq, trk>>

SchedInit ==
    /\ lock = FALSE
    /\ tpc = [t \in Triggers |-> "idle"]
    /\ conv = "END"
    /\ jobq = {}
    /\ batch = <<>>
    /\ exst = <<>>
    /\ sched = [overlap   |-> [t \in Triggers |-> FALSE],
                polling   |-> [t \in Triggers |-> FALSE],
                acquired  |-> [t \in Triggers |-> FALSE],
                planned   |-> [t \in Triggers |-> FALSE],
                submitted |-> [t \in Triggers |-> 0]]
    /\ trk = [next_state |-> "unset", update |-> FALSE, checks |-> <<>>,
              outcome |-> <<>>, open_orders |-> <<>>, err |-> <<>>,
              all_closed |-> <<>>, added |-> <<>>, found |-> {},
              saw_open |-> <<>>, unknown |-> FALSE]
    /\ inp = NoOut /\ outp = NoOut /\ stage = "sched"
    /\ LedIdle /\ AuxIdle

\* job, lines 23-27: the non-blocking acquire
JobAcquire(t) ==
    /\ tpc[t] = "idle"
    /\ IF TryAcquire(lock)
       THEN /\ lock' = TRUE
            /\ tpc' = [tpc EXCEPT ![t] = "day"]
            /\ sched' = [sched EXCEPT !.overlap[t] = lock, !.polling[t] = Polling,
                                      !.acquired[t] = TRUE]
       ELSE /\ tpc' = [tpc EXCEPT ![t] = "done"]
            /\ sched' = [sched EXCEPT !.overlap[t] = lock, !.polling[t] = Polling]
            /\ UNCHANGED lock
    /\ UNCHANGED <<conv, jobq, batch, exst, trk, pureVars, ledVars, auxVars>>

\* job, lines 29-38: today is not in the list of days, or the plan is due
\* and savings_plan_automatic_execution is read from the configuration
JobDayCheck(t) ==
    /\ tpc[t] = "day"
    /\ \E due \in BOOLEAN, auto \in BOOLEAN :
           tpc' = [tpc EXCEPT ![t] = IF ~due THEN "fin"
                                     ELSE IF auto THEN "plan" ELSE "ask"]
    /\ UNCHANGED <<lock, conv, jobq, batch, exst, sched, trk, pureVars, ledVars, auxVars>>

\* (variant: no finally, an exception leaves job past the release)
AfterPlanning_NoFinally(r) ==
    IF r = "True" THEN "exec" ELSE IF r = "TypeError" THEN "done" ELSE "fin"

\* job, lines 28 and 40-45: execute_order follows a true order_planning;
\* a false one and an exception both go through the finally clause
AfterPlanning(r) == IF r = "True" THEN "exec" ELSE "fin"

\* job, lines 38-40: send and order_planning
JobPlan(t) ==
    /\ tpc[t] = "plan"
    /\ \E r \in {"TypeError", "False", "True"} :
           tpc' = [tpc EXCEPT ![t] = AfterPlanning(r)]
    /\ sched' = [sched EXCEPT !.planned[t] = TRUE]
    /\ UNCHANGED <<lock, conv, jobq, batch, exst, trk, pureVars, ledVars, auxVars>>

\* job, line 41: execute_order
JobExecute(t) ==
    /\ tpc[t] = "exec"
    /\ \E o \in ExecOutcomes :
           /\ ExecuteOrder(o, t, 1)
           /\ sched' = [sched EXCEPT !.submitted[t] = IF o = "placed" THEN @ + 1 ELSE @]
    /\ tpc' = [tpc EXCEPT ![t] = "fin"]
    /\ UNCHANGED <<lock, conv, pureVars, ledVars, auxVars>>

\* job, lines 42-43: ask_savings_plan_execution
JobAsk(t) ==
    /\ tpc[t] = "ask"
    /\ tpc' = [tpc EXCEPT ![t] = "fin"]
    /\ UNCHANGED <<lock, conv, jobq, batch, exst, sched, trk, pureVars, ledVars, auxVars>>

\* job, lines 44-45: finally release
JobRelease(t) ==
    /\ tpc[t] = "fin"
    /\ lock' = FALSE
    /\ tpc' = [tpc EXCEPT ![t] = "done"]
    /\ UNCHANGED <<conv, jobq, batch, exst, sched, trk, pureVars, ledVars, auxVars>>

\* /savings_plan: _rebalancing_question
RebalancingQuestion ==
    /\ conv = "END"
    /\ conv' \in {"REBALANCING_DECISION", "PLANNING"}
    /\ UNCHANGED <<lock, tpc, jobq, batch, exst, sched, trk, pureVars, ledVars, auxVars>>

RebalancingDecision ==
    /\ conv = "REBALANCING_DECISION"
    /\ conv' = "PLANNING"
    /\ UNCHANGED <<lock, tpc, jobq, batch, exst, sched, trk, pureVars, ledVars, auxVars>>

\* _order_planning_conversation: "No", a plan that is not executable, or on
OrderPlanningConversation ==
    /\ conv = "PLANNING"
    /\ conv' \in {"END", "EXECUTING"}
    /\ UNCHANGED <<lock, tpc, jobq, batch, exst, sched, trk, pureVars, ledVars, auxVars>>

\* _savings_plan_execution_conversation: "No", or "Yes" and execute_order
SavingsPlanExecutionConversation ==
    /\ conv = "EXECUTING"
    /\ \/ /\ conv' = "END"
          /\ UNCHANGED <<jobq, batch, exst, trk>>
       \/ \E o \in ExecOutcomes, k \in 0..MaxOrders :
              /\ ExecuteOrder(o, "user", k)
              /\ conv' = IF o = "placed" THEN "CHECKING" ELSE "END"
    /\ UNCHANGED <<lock, tpc, sched, pureVars, ledVars, auxVars>>

\* /cancel: a fallback, reached in every state but CHECKING, whose own
\* MessageHandler takes every text and command
Cancel ==
    /\ conv \in {"REBALANCING_DECISION", "PLANNING", "EXECUTING"}
    /\ conv' = "END"
    /\ UNCHANGED <<lock, tpc, jobq, batch, exst, sched, trk, pureVars, ledVars, auxVars>>

\* _change_conversation_state, for a StateChangeUpdate taken off the queue
ChangeConversationState ==
    /\ trk.update
    /\ trk' = [trk EXCEPT !.update = FALSE]
    /\ conv' = IF conv = "CHECKING" /\ trk.next_state \in {"END", "CHECKING"}
               THEN trk.next_state ELSE conv
    /\ UNCHANGED <<lock, tpc, jobq, batch, exst, sched, pureVars, ledVars, auxVars>>

\* TradingBot.check_orders, line 383: add_trade(date=..., ..., exchange=...)
\* is called without id, which add_trade requires
add_trade_result == "ValidationError"

\* (variant: every exception of the loop is handled like the KeyError)
Caught_All(e) == TRUE

\* TradingBot.check_orders, lines 373-377: except KeyError
Caught(e) == e = "KeyError"

\* TradingBot.check_orders: the loop over zip(order_ids, symbols).  f is the
\* position at which fetch_order still fails after its retries (0: nowhere).
\*   raised   the exception that leaves the loop, or "none"
\*   open     open_orders, closed: closed_orders
\*   keyerr   an order's data lacked a field
\*   added    the orders add_trade has appended to the ledger
\*   unknown  fetch_order was called with an id that is not an order's
RECURSIVE CheckLoop(_, _, _, _)
CheckLoop(ids, i, f, acc) ==
    IF i > Len(ids) THEN acc
    ELSE LET id == ids[i]
             asOpen == [acc EXCEPT !.open = Append(@, id)]
             asClosed == [acc EXCEPT !.closed = Append(@, id)]
         IN  IF id < 0
             THEN \* a 'fake' order: closed, price 1, amount = cost = -id
                  IF add_trade_result = "ok"
                  THEN CheckLoop(ids, i + 1, f, [asClosed EXCEPT !.added = Append(@, id)])
                  ELSE IF Caught(add_trade_result)
                  THEN CheckLoop(ids, i + 1, f, [asClosed EXCEPT !.swallowed = TRUE])
                  ELSE [asClosed EXCEPT !.raised = add_trade_result]
             ELSE IF id \notin DOMAIN exst
             THEN \* fetch_order for an id the exchange has never given out
                  [acc EXCEPT !.raised = "BaseError", !.unknown = TRUE]
             ELSE IF f = i
             THEN IF Caught("BaseError")
                  THEN CheckLoop(ids, i + 1, f, [asOpen EXCEPT !.swallowed = TRUE])
                  ELSE [acc EXCEPT !.raised = "BaseError"]
             ELSE IF exst[id] = "open"
             THEN CheckLoop(ids, i + 1, f, asOpen)
             ELSE IF exst[id] = "malformed"
             THEN IF Caught("KeyError")
                  THEN CheckLoop(ids, i + 1, f, [asOpen EXCEPT !.keyerr = TRUE])
                  ELSE [acc EXCEPT !.raised = "KeyError"]
             ELSE IF add_trade_result = "ok"
             THEN CheckLoop(ids, i + 1, f, [asClosed EXCEPT !.added = Append(@, id)])
             ELSE IF Caught(add_trade_result)
             THEN CheckLoop(ids, i + 1, f, [asClosed EXCEPT !.swallowed = TRUE])
             ELSE [asClosed EXCEPT !.raised = add_trade_result]

check_orders(ids, f) ==
    CheckLoop(ids, 1, f, [raised |-> "none", open |-> <<>>, closed |-> <<>>,
                          keyerr |-> FALSE, swallowed |-> FALSE, added |-> <<>>,
                          unknown |-> FALSE])

\* the status of the entry id of a batch: a negative id stands for a
\* 'fake' order, which is closed
StatusOf(id) ==
    IF id < 0 THEN "closed"
    ELSE IF id \in DOMAIN exst THEN exst[id] ELSE "unknown"

\* what the check met: the exception raised, else a handled one, else "none"
MetError(r) ==
    IF r.raised # "none" THEN r.raised
    ELSE IF r.swallowed THEN "swallowed"
    ELSE IF r.keyerr THEN "KeyError" ELSE "none"

\* TelegramBot.check_orders, run by the job queue for job j
CheckOrders(j) ==
    /\ j \in jobq
    /\ \E f \in 0..Len(batch[j.b].orders) :
       LET ids  == batch[j.b].orders
           r    == check_orders(ids, f)
           seen == [trk EXCEPT !.checks[j.b] = @ + 1,
                               !.err[j.b] = MetError(r),
                               !.added = @ \o r.added,
                               !.found = @ \cup Range(r.closed),
                               !.unknown = @ \/ r.unknown,
                               !.saw_open[j.b] =
                                   \E i \in 1..Len(r.open) : StatusOf(r.open[i]) = "open",
                               !.all_closed[j.b] =
                                   /\ f = 0 /\ ids # <<>>
                                   /\ \A i \in 1..Len(ids) : StatusOf(ids[i]) = "closed"]
       IN  IF r.raised # "none"
           THEN \* except Exception: next_state is set, nothing is queued
                /\ jobq' = jobq \ {j}
                /\ trk' = [seen EXCEPT !.next_state = "END", !.outcome[j.b] = "RAISED"]
           ELSE IF Len(r.closed) = Len(ids)
           THEN /\ jobq' = jobq \ {j}
                /\ trk' = [seen EXCEPT !.next_state = "END", !.update = TRUE,
                                       !.open_orders[j.b] = FALSE,
                                       !.outcome[j.b] = "SETTLED"]
           ELSE IF RetryExhausted(j.n)
           THEN /\ jobq' = jobq \ {j}
                /\ trk' = [seen EXCEPT !.next_state = "END", !.update = TRUE,
                                       !.open_orders[j.b] = TRUE,
                                       !.outcome[j.b] = "STALLED"]
           ELSE /\ jobq' = (jobq \ {j}) \cup
                               {[b |-> j.b, n |-> j.n + 1, when |-> WaitTime(j.n)]}
                /\ trk' = [seen EXCEPT !.next_state = "CHECKING", !.update = TRUE,
                                       !.open_orders[j.b] = TRUE]
    /\ UNCHANGED <<lock, tpc, conv, batch, exst, sched, pureVars, ledVars, auxVars>>

\* the exchange fills an order; what fetch_order then returns for it is
\* complete ("closed") or lacks a field the tracker reads ("malformed")
OrderFills ==
    /\ \E id \in DOMAIN exst, st \in {"closed", "malformed"} :
           /\ exst[id] = "open"
           /\ exst' = [exst EXCEPT ![id] = st]
    /\ UNCHANGED <<lock, tpc, conv, jobq, batch, sched, trk, pureVars, ledVars, auxVars>>

\* the scheduler and the tracker; every batch is one order
SchedNext ==
    \/ \E t \in Triggers : JobAcquire(t)
    \/ \E t \in Triggers : JobDayCheck(t)
    \/ \E t \in Triggers : JobPlan(t)
    \/ \E t \in Triggers : JobExecute(t)
    \/ \E t \in Triggers : JobAsk(t)
    \/ \E t \in Triggers : JobRelease(t)
    \/ ChangeConversationState
    \/ \E j \in jobq : CheckOrders(j)
    \/ OrderFills

SpecSched == SchedInit /\ [][SchedNext]_vars

\* what weight * volume comes to for the base symbol of a batch
BaseEntryCosts == {0, 50}

\* execute_order for a batch with the base symbol in it: weighted_buy_order
\* places k orders and stores -weight*volume in place of an id for the
\* base symbol, order_report hands the ids to the job queue
ExecuteOrderWithBase ==
    /\ conv = "EXECUTING"
    /\ Len(batch) < Cardinality(Triggers)
    /\ \E c \in BaseEntryCosts, k \in 0..1 :
           Submit(<<-c>> \o [i \in 1..k |-> 10 * (Len(batch) + 1) + i], "user")
    /\ conv' = "CHECKING"
    /\ UNCHANGED <<lock, tpc, sched, pureVars, ledVars, auxVars>>

\* the savings_plan conversation and the tracker
TrackNext ==
    \/ RebalancingQuestion
    \/ RebalancingDecision
    \/ OrderPlanningConversation
    \/ SavingsPlanExecutionConversation
    \/ ExecuteOrderWithBase
    \/ Cancel
    \/ ChangeConversationState
    \/ \E j \in jobq : CheckOrders(j)
    \/ OrderFills

SpecTrack == SchedInit /\ [][TrackNext]_vars

\* C1 (as stated): of two overlapping triggers, exactly one order batch is
\* submitted.
C1_ExactlyOneBatch ==
    \A t, u \in Triggers :
        (t # u /\ sched.overlap[u] /\ tpc[t] = "done" /\ tpc[u] = "done")
            => sched.submitted[t] + sched.submitted[u] = 1

\* C1: a trigger that fires while another invocation of job holds the lock
\* returns at once: it never holds the lock, never plans and never submits,
\* and nothing of it is left to run later; no two invocations are past the
\* acquire at once, and two overlapping triggers submit at most one batch.
C1_AtMostOneBatch ==
    /\ \A u \in Triggers :
           sched.overlap[u] =>
               /\ tpc[u] = "done"
               /\ ~sched.acquired[u] /\ ~sched.planned[u] /\ sched.submitted[u] = 0
    /\ Cardinality({t \in Triggers : tpc[t] \in InCriticalSection}) <= 1
    /\ \A t, u \in Triggers :
           (t # u /\ sched.overlap[u]) => sched.submitted[t] + sched.submitted[u] <= 1

\* C1 witness: one trigger was skipped because of the other, which has
\* submitted its batch and returned
C1_Witness ==
    \E t, u \in Triggers :
        /\ t # u
        /\ sched.overlap[u] /\ tpc[u] = "done"
        /\ sched.submitted[t] = 1 /\ tpc[t] = "done"

\* the pending check of batch b, if any
JobsOf(b) == {j \in jobq : j.b = b}

C13_EveryErrorPropagates ==
    \A b \in 1..Len(batch) :
        trk.err[b] # "none" => trk.outcome[b] = "RAISED"

\* C13: a status fetch that still fails after its retries and a failed
\* ledger write are raised again by the check, which schedules no further
\* check; a KeyError on the data of an order is not propagated: the order
\* is reported as open and stays tracked until the retry limit.
C13_ErrorsPropagateButKeyError ==
    \A b \in 1..Len(batch) :
        /\ trk.err[b] \notin {"none", "KeyError"} =>
               (trk.outcome[b] = "RAISED" /\ JobsOf(b) = {})
        /\ trk.err[b] = "KeyError" =>
               /\ trk.open_orders[b]
               /\ trk.outcome[b] \in {"SUBMITTED", "STALLED"}
               /\ trk.outcome[b] = "SUBMITTED" => JobsOf(b) # {}

\* C13 witness: one batch whose check raised the fetch error, another whose
\* check met an order without a field and was scheduled again
C13_Witness ==
    \E b, c \in 1..Len(batch) :
        /\ trk.err[b] = "BaseError" /\ trk.outcome[b] = "RAISED"
        /\ trk.err[c] = "KeyError" /\ JobsOf(c) # {}
        /\ \E i \in 1..Len(batch[c].orders) : StatusOf(batch[c].orders[i]) = "malformed"

\* C14: after a passed pre-flight, a create-order call is made for every
\* non-base symbol of the batch whatever the earlier calls ended in, and a
\* symbol whose call raised InvalidOrder or another exchange error is in
\* the report's invalid_symbols and not among the placed symbols.
C14_EveryFailedSymbolRecorded ==
    (stage = "done" /\ outp.problems.raised = "none" /\ ~outp.problems.fail) =>
        /\ outp.raised = "none"
        /\ \A i \in 1..Len(inp.symbols) :
              ~IsBase(inp.symbols[i]) =>
                  /\ \E k \in 1..Len(outp.calls) :
                         outp.calls[k].ticker = Ticker(inp.symbols[i])
                  /\ inp.env.outcome[Lower(inp.symbols[i])] \in {"InvalidOrder", "BaseError"} =>
                         /\ inp.symbols[i] \in Range(outp.invalid)
                         /\ Ticker(inp.symbols[i]) \notin Range(outp.symbols)

\* a symbol of the call without a row in the market snapshot
NoMarketEntry(sym) == sym \notin DOMAIN inp.cfg.markets

\* C16: under the market-cap schemes fetch_index_weights does not raise for
\* a symbol without market entry: the symbol gets weight 0 and, if another
\* symbol of the call is eligible, the weights sum to 1.
C16_MissingMarketEntryGetsZero ==
    (/\ stage = "done"
     /\ inp.cfg.weighting \in MarketCapWeightings
     /\ \E i \in 1..Len(WeightSymbols) : NoMarketEntry(WeightSymbols[i])) =>
        /\ outp.status = "ok"
        /\ Len(outp.weights) = Len(WeightSymbols)
        /\ (\E i \in 1..Len(WeightSymbols) : Eligible(WeightSymbols[i])) =>
               /\ \A i \in 1..Len(WeightSymbols) :
                      NoMarketEntry(WeightSymbols[i]) => outp.weights[i] = QZero
               /\ QSum(outp.weights) = QOne

\* how many Trades the tracker has appended for order id
TimesAppended(id) == Cardinality({k \in 1..Len(trk.added) : trk.added[k] = id})

\* C17: over all the checks of a batch, an order that a check has found
\* closed is appended to the ledger exactly once, and no other order is
\* appended.
C17_AppendedExactlyOnce ==
    \A id \in DOMAIN exst :
        TimesAppended(id) = IF id \in trk.found THEN 1 ELSE 0

\* the ids of the Trades the tracker has written, as the reconciliation
\* pass sees them in trades_df["id"]
TrackerTradeIds == {trk.added[k] : k \in 1..Len(trk.added)}

\* C18: once the tracker has handled a closed order X, a Trade with id X
\* exists, so that the pending reference X is not missing for the
\* reconciliation pass.
C18_TradeCarriesOrderId ==
    \A id \in trk.found : id > 0 => id \in TrackerTradeIds

\* order_ids.csv has a reference for order id
PendingRefFor(id) ==
    \E k \in 1..Len(order_ids_file) : order_ids_file[k].id = id

\* C19: every real order of a submitted batch has its reference in the
\* pending-order store from the submission on.
C19_PendingRefAtSubmission ==
    \A b \in 1..Len(batch) :
        \A i \in 1..Len(batch[b].orders) :
            batch[b].orders[i] > 0 => PendingRefFor(batch[b].orders[i])

\* C20: a batch whose check found every order closed is SETTLED and has no
\* check scheduled; a SETTLED batch has no open order.
C20_SettledWhenAllClosed ==
    \A b \in 1..Len(batch) :
        /\ trk.all_closed[b] => (trk.outcome[b] = "SETTLED" /\ JobsOf(b) = {})
        /\ trk.outcome[b] = "SETTLED" =>
               \A i \in 1..Len(batch[b].orders) : StatusOf(batch[b].orders[i]) = "closed"

\* C21 (as stated): a check with retry count n <= 10 that has found an open
\* order leaves exactly one follow-up check for the batch, delayed by 60*n*n
\* seconds and carrying n + 1, and the batch stays SUBMITTED; a batch never
\* has two pending checks, and the first check is due 10 seconds after the
\* submission.
C21_OneFollowUpCheck ==
    \A b \in 1..Len(batch) :
        /\ Cardinality(JobsOf(b)) <= 1
        /\ \A j \in JobsOf(b) :
               j.when = IF j.n = 1 THEN FirstCheckDelay ELSE WaitTime(j.n - 1)
        /\ (trk.saw_open[b] /\ trk.checks[b] <= RetryLimit) =>
               /\ trk.outcome[b] = "SUBMITTED"
               /\ \E j \in JobsOf(b) :
                      j.n = trk.checks[b] + 1 /\ j.when = WaitTime(trk.checks[b])

\* C21: a check with retry count n <= 10 that returns with an open order in
\* its report leaves exactly one follow-up check, delayed by 60*n*n seconds
\* and carrying n + 1, and the batch stays SUBMITTED; a check that raises
\* leaves none, whatever it had found open; a batch never has two pending
\* checks, and the first check is due 10 seconds after the submission.
C21_FollowUpAfterCompletedCheck ==
    \A b \in 1..Len(batch) :
        /\ Cardinality(JobsOf(b)) <= 1
        /\ \A j \in JobsOf(b) :
               j.when = IF j.n = 1 THEN FirstCheckDelay ELSE 60 * (j.n - 1) * (j.n - 1)
        /\ (trk.open_orders[b] /\ trk.outcome[b] # "RAISED" /\ trk.checks[b] <= RetryLimit) =>
               /\ trk.outcome[b] = "SUBMITTED"
               /\ \E j \in JobsOf(b) : j.n = trk.checks[b] + 1
        /\ trk.outcome[b] = "RAISED" => JobsOf(b) = {}

\* C21 witness: two checks have returned with the order open, the third is
\* pending with its delay of 240 seconds
C21_Witness ==
    \E b \in 1..Len(batch) :
        /\ trk.checks[b] = 2 /\ trk.open_orders[b] /\ trk.outcome[b] = "SUBMITTED"
        /\ \E j \in JobsOf(b) : j.n = 3 /\ j.when = 240
        /\ \E i \in 1..Len(batch[b].orders) : StatusOf(batch[b].orders[i]) = "open"

\* the batches with an entry for the base symbol, which is their first
WithBaseEntry == {b \in 1..Len(batch) : batch[b].orders # <<>> /\ batch[b].orders[1] <= 0}

\* C22: for the base symbol of a batch no call is made to the exchange: a
\* check reports the entry closed without fetching an order and writes its
\* Trade (price 1, amount = cost = weight * volume).
C22_BaseEntryNeverFetched ==
    /\ ~trk.unknown
    /\ \A b \in WithBaseEntry :
           trk.checks[b] >= 1 =>
               /\ batch[b].orders[1] \in trk.found
               /\ batch[b].orders[1] \in TrackerTradeIds

-----------------------------------------------------------------------------
(* update_trades_df on the refresh thread (run_api_updates) against        *)
(* add_trade on the thread of a caller.  Neither takes a lock; each        *)
(* statement that reads or assigns self.trades_df or the file is a step.   *)
(*   rfr.pc : "idle", "read" (file read into the local trades_df),         *)
(*            "reconciled", "swapped" (self.trades_df assigned)            *)
(*   wtr.pc : "idle", "read" (self.trades_df read for pd.concat),          *)
(*            "appended" (self.trades_df assigned)                         *)

NewTradeIds == {"201", "202"}   \* ids of the trades add_trade is called with

TradeRow(i, d) == [id |-> <<"str", i>>, symbol |-> "ETH/BUSD", date |-> d]

RaceInit ==
    /\ order_ids_file \in {f \in PendingFiles : Len(f) <= 1 /\
                              \A k \in 1..Len(f) : f[k].id \in TextIds /\ f[k].date = 0}
    /\ trades_file \in {<<>>, <<[id |-> "101", symbol |-> "ETH/BUSD", date |-> 0]>>}
    /\ orders = [i \in PendingIds |-> "closed"]
    /\ trades_df = ReadTrades(trades_file)
    /\ order_ids = ReadOrderIds(order_ids_file)
    /\ last_trades_update = 0
    /\ now = StartClock
    /\ passes = 0
    /\ rfr = [pc |-> "idle", df |-> <<>>, update_file |-> FALSE]
    /\ wtr = [pc |-> "idle", id |-> "", snap |-> <<>>, done |-> {}]
    /\ inp = NoOut /\ outp = NoOut /\ stage = "ledger"
    /\ SchedIdle
    /\ mkt = <<>> /\ hist = <<>>

\* update_order_ids, then update_trades_df up to the read of trades.csv
RefreshRead ==
    /\ rfr.pc = "idle"
    /\ passes < MaxPasses
    /\ last_trades_update < now - TradesRefreshMinutes
    /\ order_ids' = ReadOrderIds(order_ids_file)
    /\ rfr' = [pc |-> "read", df |-> ReadTrades(trades_file), update_file |-> FALSE]
    /\ passes' = passes + 1
    /\ UNCHANGED <<trades_file, trades_df, order_ids_file, last_trades_update,
                   now, orders, wtr, pureVars, schedVars, extVars>>

\* the loop over missing_ids, on the local trades_df
RefreshReconcile ==
    /\ rfr.pc = "read"
    /\ LET df == Reconcile(SelectMissing(order_ids, rfr.df), rfr.df, now, orders)
       IN  rfr' = [pc |-> "reconciled", df |-> df, update_file |-> df # rfr.df]
    /\ UNCHANGED <<ledVars, wtr, pureVars, schedVars, extVars>>

\* self.trades_df = trades_df; self.last_trades_update = time()
RefreshSwap ==
    /\ rfr.pc = "reconciled"
    /\ trades_df' = rfr.df
    /\ last_trades_update' = now
    /\ rfr' = [rfr EXCEPT !.pc = "swapped"]
    /\ UNCHANGED <<trades_file, order_ids_file, order_ids, now, orders, passes,
                   wtr, pureVars, schedVars, extVars>>

\* if update_file: self.update_trades_file()
RefreshWrite ==
    /\ rfr.pc = "swapped"
    /\ IF rfr.update_file
       THEN /\ trades_df' = SortByDate(trades_df)
            /\ trades_file' = WriteTrades(SortByDate(trades_df))
       ELSE UNCHANGED <<trades_df, trades_file>>
    /\ rfr' = [pc |-> "idle", df |-> <<>>, update_file |-> FALSE]
    /\ UNCHANGED <<order_ids_file, order_ids, last_trades_update, now, orders,
                   passes, wtr, pureVars, schedVars, extVars>>

\* add_trade(id=i, ...) without trades_df: self.trades_df is read for pd.concat
AddTradeRead ==
    /\ wtr.pc = "idle"
    /\ \E i \in NewTradeIds \ wtr.done :
           wtr' = [wtr EXCEPT !.pc = "read", !.id = i, !.snap = trades_df]
    /\ UNCHANGED <<ledVars, rfr, pureVars, schedVars, extVars>>

\* self.trades_df = pd.concat([self.trades_df, trade_dict_df])
AddTradeAssign ==
    /\ wtr.pc = "read"
    /\ trades_df' = Append(wtr.snap, TradeRow(wtr.id, now))
    /\ wtr' = [wtr EXCEPT !.pc = "appended", !.snap = <<>>]
    /\ UNCHANGED <<trades_file, order_ids_file, order_ids, last_trades_update,
                   now, orders, passes, rfr, pureVars, schedVars, extVars>>

\* self.update_trades_file(), and add_trade returns
AddTradeWrite ==
    /\ wtr.pc = "appended"
    /\ trades_df' = SortByDate(trades_df)
    /\ trades_file' = WriteTrades(SortByDate(trades_df))
    /\ wtr' = [wtr EXCEPT !.pc = "idle", !.id = "", !.done = @ \cup {wtr.id}]
    /\ UNCHANGED <<order_ids_file, order_ids, last_trades_update, now, orders,
                   passes, rfr, pureVars, schedVars, extVars>>

\* time passes
RaceAdvance ==
    /\ now < MaxClock
    /\ now' = now + 1
    /\ UNCHANGED <<trades_file, trades_df, order_ids_file, order_ids,
                   last_trades_update, orders, passes, auxVars, pureVars, schedVars, extVars>>

RaceNext ==
    \/ RefreshRead
    \/ RefreshReconcile
    \/ RefreshSwap
    \/ RefreshWrite
    \/ AddTradeRead
    \/ AddTradeAssign
    \/ AddTradeWrite
    \/ RaceAdvance

SpecLedgerRace == RaceInit /\ [][RaceNext]_vars

ThrottleSeconds == 2
MarketStart     == 3
MaxMarketClock  == 6

STABLE_COINS == {"USDT", "TUSD", "USDC", "BUSD", "DAI", "UST", "MIM", "FRAX", "EURT"}

coingecko_symbol_dict == [miota |-> "iota"]

ProviderSymbols == {"ETH", "miota", "usdt"}
ProviderPrices  == {1, 2}

\* str.lower / str.upper on the symbols of the market table
MarketLower(s) == CASE s = "ETH" -> "eth" [] OTHER -> s
MarketUpper(s) == CASE s = "eth" -> "ETH" [] s = "miota" -> "MIOTA"
                    [] s = "iota" -> "IOTA" [] s = "usdt" -> "USDT" [] OTHER -> s

\* markets.replace(coingecko_symbol_dict)
Replace(s) == IF s \in DOMAIN coingecko_symbol_dict THEN coingecko_symbol_dict[s] ELSE s

ProviderRows  == [symbol : ProviderSymbols, current_price : ProviderPrices]
ProviderPages == {<<>>} \cup {<<r>> : r \in ProviderRows}
FetchErrors   == {"HTTPError", "ConnectionError"}
\* what get_markets leaves after the last attempt: the page, or the error
PageOutcomes  == [err : {"none"}, rows : ProviderPages]
                     \cup [err : FetchErrors, rows : {<<>>}]

\* if not force: if self.last_market_update >= time() - 2: return
Throttled(force, last, t) == ~force /\ last >= t - ThrottleSeconds

ConcatPages_FirstPage(p1, p2) == p1

\* pd.concat([markets, more_markets], ignore_index=True)
ConcatPages(p1, p2) == p1 \o p2

\* markets["symbol"].str.lower(), then replace
Publish(rows) ==
    [k \in 1..Len(rows) |->
        [rows[k] EXCEPT !.symbol = Replace(MarketLower(rows[k].symbol))]]

\* markets.loc[~markets.symbol.str.upper().isin(STABLE_COINS)]
NonStable(rows) == SelectSeq(rows, LAMBDA r : MarketUpper(r.symbol) \notin STABLE_COINS)

MarketInit ==
    /\ mkt = [has_markets |-> FALSE, markets |-> <<>>, top_non_stablecoins |-> <<>>,
              last_market_update |-> 0, time |-> MarketStart,
              result |-> "none", fetched |-> <<>>]
    /\ rfr = <<>> /\ wtr = <<>> /\ hist = <<>>
    /\ inp = NoOut /\ outp = NoOut /\ stage = "markets"
    /\ SchedIdle /\ LedIdle

update_markets(force, p1, p2) ==
    IF Throttled(force, mkt.last_market_update, mkt.time)
    THEN mkt' = [mkt EXCEPT !.result = "skipped"]
    ELSE IF p1.err \in FetchErrors
    THEN mkt' = [mkt EXCEPT !.result = p1.err]
    ELSE IF p2.err \in FetchErrors
    THEN mkt' = [mkt EXCEPT !.result = p2.err]
    ELSE LET markets == ConcatPages(p1.rows, p2.rows)
         IN  IF markets = <<>>
             THEN \* markets["symbol"] on a frame without columns
                  mkt' = [mkt EXCEPT !.result = "KeyError"]
             ELSE mkt' = [mkt EXCEPT !.has_markets = TRUE,
                                     !.markets = Publish(markets),
                                     !.top_non_stablecoins = NonStable(Publish(markets)),
                                     !.last_market_update = mkt.time,
                                     !.result = "ok",
                                     !.fetched = p1.rows \o p2.rows]

UpdateMarkets ==
    /\ \E force \in BOOLEAN, p1 \in PageOutcomes, p2 \in PageOutcomes :
           update_markets(force, p1, p2)
    /\ UNCHANGED <<rfr, wtr, hist, pureVars, schedVars, ledVars>>

MarketTick ==
    /\ mkt.time < MaxMarketClock
    /\ mkt' = [mkt EXCEPT !.time = @ + 1]
    /\ UNCHANGED <<rfr, wtr, hist, pureVars, schedVars, ledVars>>

MarketNext ==
    \/ UpdateMarkets
    \/ MarketTick

SpecMarkets == MarketInit /\ [][MarketNext]_vars

\* the call ended in an error: of the provider, or raised out of update_markets
MarketCallFailed(r) == r \in FetchErrors \cup {"KeyError"}

\* the snapshot is the last successful fetch, page one then page two, with
\* lower-cased and renamed symbols
SnapshotIsLastFetch ==
    mkt.fetched # <<>> =>
        /\ mkt.has_markets
        /\ mkt.markets # <<>>
        /\ Len(mkt.markets) = Len(mkt.fetched)
        /\ \A k \in 1..Len(mkt.fetched) :
              /\ mkt.markets[k].current_price = mkt.fetched[k].current_price
              /\ mkt.markets[k].symbol =
                    (IF mkt.fetched[k].symbol = "miota" THEN "iota"
                     ELSE IF mkt.fetched[k].symbol = "ETH" THEN "eth"
                     ELSE mkt.fetched[k].symbol)

\* C12: once a fetch has succeeded the published snapshot is the result of
\* the most recent successful fetch and is never empty or unset again; a
\* call that ends in an error leaves the snapshot, the non-stablecoin list
\* and last_market_update as they were.
C12_SnapshotIsLastSuccessfulFetch ==
    /\ []SnapshotIsLastFetch
    /\ [][MarketCallFailed(mkt'.result) =>
             /\ mkt'.has_markets = mkt.has_markets
             /\ mkt'.markets = mkt.markets
             /\ mkt'.top_non_stablecoins = mkt.top_non_stablecoins
             /\ mkt'.last_market_update = mkt.last_market_update]_vars

\* a loaded two-page snapshot with a renamed symbol, after a later call that
\* ended in a provider error
C12_Witness ==
    /\ mkt # <<>>
    /\ mkt.result = "HTTPError"
    /\ Len(mkt.fetched) = 2
    /\ mkt.fetched[2].symbol = "miota"
    /\ mkt.last_market_update < mkt.time - ThrottleSeconds

(***************************************************************************)
(* update_trades_df (analytics.py): the columns of trades.csv              *)
(*                                                                         *)
(* One refresh of a file that may lack columns, with order_ids.csv empty   *)
(* and no rebranded symbol.  A file is [cols, rows]; a row carries a       *)
(* value for every column, of which the reader sees those in cols.  The    *)
(* base currency is USD: base_cost_row is cost_usd.                        *)
(***************************************************************************)

NaN    == -1        \* np.nan in a float column
NaNStr == "nan"     \* np.nan in a str column

trades_cols == {"date", "sell_symbol", "cost", "fee", "cost_total", "cost_usd", "exchange"}

FIAT_SYMBOLS == {"EUR", "USD", "GBP"}

AccountingCurrency == "usd"
ConfigExchange     == "binance"
HistoricPrice      == 2
MaxMissing         == 2
MaxRows            == 2

\* float arithmetic with nan
NAdd(a, b) == IF a = NaN \/ b = NaN THEN NaN ELSE a + b
NMul(a, b) == IF a = NaN \/ b = NaN THEN NaN ELSE a * b

SellLower(s) == CASE s = "USD" -> "usd" [] s = "BUSD" -> "busd" [] OTHER -> s

\* pd.read_csv, then trades_df.insert(..., value=np.nan) for a missing column
ReadRow(r, cols) ==
    [date        |-> r.date,
     sell_symbol |-> IF "sell_symbol" \in cols THEN r.sell_symbol ELSE NaNStr,
     cost        |-> IF "cost" \in cols THEN r.cost ELSE NaN,
     fee         |-> IF "fee" \in cols THEN r.fee ELSE NaN,
     cost_total  |-> IF "cost_total" \in cols THEN r.cost_total ELSE NaN,
     cost_usd    |-> IF "cost_usd" \in cols THEN r.cost_usd ELSE NaN,
     exchange    |-> IF "exchange" \in cols THEN r.exchange ELSE NaNStr]

\* trades_df["fee"].fillna(0.0)
FillFee(r) == [r EXCEPT !.fee = IF @ = NaN THEN 0 ELSE @]

\* if any(cost_total.isna()): cost_total = cost + fee, for every row
TotalCost(rows) ==
    IF \E k \in 1..Len(rows) : rows[k].cost_total = NaN
    THEN [k \in 1..Len(rows) |-> [rows[k] EXCEPT !.cost_total = NAdd(rows[k].cost, rows[k].fee)]]
    ELSE rows

\* compute_base_cost(row): the exception it raises, or "none"
BaseCostError(r, history) ==
    IF r.sell_symbol \notin FIAT_SYMBOLS /\ r.sell_symbol = NaNStr
    THEN "AttributeError"      \* get_coin_id(nan): symbol.lower()
    ELSE IF SellLower(r.sell_symbol) # AccountingCurrency /\ history # "ok" THEN history
    ELSE "none"

\* compute_base_cost(row): convert_cost
BaseCost(r) ==
    IF SellLower(r.sell_symbol) # AccountingCurrency
    THEN NMul(HistoricPrice, r.cost_total)
    ELSE r.cost_total

FillExchange(r) == [r EXCEPT !.exchange = IF @ = NaNStr THEN ConfigExchange ELSE @]

update_trades_df(file, history) ==
    IF "date" \notin file.cols
    THEN \* read_csv(..., parse_dates=["date"])
         [raised |-> "ValueError", trades_df |-> <<>>, assigned |-> FALSE,
          written |-> FALSE, file |-> file]
    ELSE LET read    == [k \in 1..Len(file.rows) |-> ReadRow(file.rows[k], file.cols)]
             costed  == TotalCost([k \in 1..Len(read) |-> FillFee(read[k])])
             nulls   == {k \in 1..Len(costed) : costed[k].cost_usd = NaN}
             errs    == {k \in nulls : BaseCostError(costed[k], history) # "none"}
             based   == [k \in 1..Len(costed) |->
                            IF k \in nulls
                            THEN [costed[k] EXCEPT !.cost_usd = BaseCost(costed[k])]
                            ELSE costed[k]]
             noExch  == \E k \in 1..Len(based) : based[k].exchange = NaNStr
             final   == [k \in 1..Len(based) |-> FillExchange(based[k])]
             update_file == file.cols # trades_cols \/ nulls # {} \/ noExch
         IN  IF errs # {}
             THEN [raised |-> BaseCostError(costed[CHOOSE k \in errs : \A j \in errs : k <= j],
                                            history),
                   trades_df |-> <<>>, assigned |-> FALSE, written |-> FALSE, file |-> file]
             ELSE [raised |-> "none",
                   trades_df |-> IF update_file THEN SortByDate(final) ELSE final,
                   assigned |-> TRUE,
                   written |-> update_file,
                   file |-> IF update_file
                            THEN [cols |-> trades_cols, rows |-> SortByDate(final)]
                            ELSE file]

StoredRows ==
    [date : {1, 2}, sell_symbol : {"USD", "BUSD"}, cost : {10}, fee : {1},
     cost_total : {NaN, 11}, cost_usd : {NaN, 22}, exchange : {"kraken"}]

\* files as update_trades_file writes them, sorted by date, less the columns
\* that are missing
StoredFiles ==
    {f \in [cols : SUBSET trades_cols, rows : UNION {[1..n -> StoredRows] : n \in 0..MaxRows}] :
        /\ Cardinality(trades_cols \ f.cols) <= MaxMissing
        /\ \A k \in 1..(Len(f.rows) - 1) : f.rows[k].date <= f.rows[k + 1].date}

ColumnsInit ==
    /\ \E f \in StoredFiles, h \in {"ok", "HTTPError"} :
           inp = [file |-> f, history |-> h]
    /\ outp = NoOut
    /\ stage = "input"
    /\ SchedIdle /\ LedIdle /\ AuxIdle

ColumnsApply ==
    /\ stage = "input"
    /\ outp' = update_trades_df(inp.file, inp.history)
    /\ stage' = "done"
    /\ UNCHANGED <<inp, schedVars, ledVars, auxVars>>

ColumnsNext == ColumnsApply

SpecColumns == ColumnsInit /\ [][ColumnsNext]_vars

\* C15: when the stored file lacks an expected column, one refresh inserts
\* it, gives every row a non-null base-currency cost (cost_total when the
\* sell symbol is the base currency, historic price * cost_total otherwise)
\* and rewrites the file, with every column, sorted by date.
C15_MissingColumnBackfilled ==
    (stage = "done" /\ inp.file.cols # trades_cols) =>
        /\ outp.raised = "none"
        /\ outp.written
        /\ outp.file.cols = trades_cols
        /\ Len(outp.file.rows) = Len(inp.file.rows)
        /\ \A k \in 1..Len(outp.file.rows) :
              LET r == outp.file.rows[k]
              IN  /\ r.cost_usd # NaN
                  /\ k > 1 => outp.file.rows[k - 1].date <= r.date
        /\ outp.trades_df = outp.file.rows

(***************************************************************************)
(* update_markets called by several consumers                              *)
(*                                                                         *)
(* The refresh thread (update_data) and the thread of the bot              *)
(* (index_balance) call update_markets on the same PortfolioAnalytics; it  *)
(* takes no lock.  A call is three steps: the throttle test, the fetch     *)
(* from the provider, the assignments.  mkt is the record of SpecMarkets   *)
(* without result and fetched, and with                                    *)
(*   pc     per consumer: "idle", "fetching", "fetched"                    *)
(*   rows   per consumer: the local `markets`                              *)
(*   redundant   a call that was not forced went on to fetch while the     *)
(*               fetch of another call was under way                       *)
(***************************************************************************)

Consumers == {"refresh", "bot"}

\* what the provider answers: an error, or a page with a row for miota
RacePages ==
    {p \in PageOutcomes : p.err = "none" => (p.rows # <<>> /\ p.rows[1].symbol = "miota")}

MarketRaceInit ==
    /\ mkt = [has_markets |-> FALSE, markets |-> <<>>, top_non_stablecoins |-> <<>>,
              last_market_update |-> 0, time |-> MarketStart,
              pc   |-> [c \in Consumers |-> "idle"],
              rows |-> [c \in Consumers |-> <<>>],
              redundant |-> FALSE]
    /\ rfr = <<>> /\ wtr = <<>> /\ hist = <<>>
    /\ inp = NoOut /\ outp = NoOut /\ stage = "markets"
    /\ SchedIdle /\ LedIdle

\* lines 476-479: the throttle test; the call returns or goes on to fetch
MarketCheck(c) ==
    /\ mkt.pc[c] = "idle"
    /\ \E force \in BOOLEAN :
           IF Throttled(force, mkt.last_market_update, mkt.time)
           THEN UNCHANGED mkt
           ELSE IF force
           THEN mkt' = [mkt EXCEPT !.pc[c] = "fetching"]
           ELSE mkt' = [mkt EXCEPT !.pc[c] = "fetching",
                                   !.redundant =
                                       @ \/ \E d \in Consumers \ {c} : mkt.pc[d] # "idle"]
    /\ UNCHANGED <<rfr, wtr, hist, pureVars, schedVars, ledVars>>

\* lines 482-506: get_markets for both pages
MarketFetch(c) ==
    /\ mkt.pc[c] = "fetching"
    /\ \E p1 \in RacePages :
           IF p1.err \in FetchErrors \/ p1.rows = <<>>
           THEN mkt' = [mkt EXCEPT !.pc[c] = "idle"]
           ELSE mkt' = [mkt EXCEPT !.pc[c] = "fetched",
                                   !.rows[c] = Publish(ConcatPages(p1.rows, <<>>))]
    /\ UNCHANGED <<rfr, wtr, hist, pureVars, schedVars, ledVars>>

\* lines 508-510: the assignments
MarketAssign(c) ==
    /\ mkt.pc[c] = "fetched"
    /\ mkt' = [mkt EXCEPT !.has_markets = TRUE,
                          !.markets = mkt.rows[c],
                          !.top_non_stablecoins = NonStable(mkt.rows[c]),
                          !.last_market_update = mkt.time,
                          !.pc[c] = "idle",
                          !.rows[c] = <<>>]
    /\ UNCHANGED <<rfr, wtr, hist, pureVars, schedVars, ledVars>>

MarketRaceNext ==
    \/ \E c \in Consumers : MarketCheck(c)
    \/ \E c \in Consumers : MarketFetch(c)
    \/ \E c \in Consumers : MarketAssign(c)
    \/ MarketTick

SpecMarketRace == MarketRaceInit /\ [][MarketRaceNext]_vars

\* C25: a refresh that is not forced, requested while another consumer's
\* refresh is under way or within 2 seconds of a successful one, makes no
\* fetch of its own.
C25_OneFetchPerWindow == ~mkt.redundant

-----------------------------------------------------------------------------
\* The price history: PortfolioAnalytics.update_historical_prices
\* (analytics.py 673-761) and its reader compute_value_history (763-771).
\*
\* Time is counted in ticks of two and a half minutes, and the durations of
\* the code keep their order: 5 minutes < 15 minutes < 1 hour < 1 day <
\* 2 days < 30 days.  The clock time() takes odd values and the provider's
\* price points sit on even ones, so that the row stamped Timestamp.now()
\* never falls on a fetched point.

FiveMinutes == 2        \* freq "5T"
QuarterHour == 6        \* 60 * 15
Hour        == 4        \* freq "H"
Day         == 8        \* day = 60 * 60 * 24
TwoDays     == 2 * Day  \* 60 * 60 * 24 * 2, and pd.DateOffset(2)
Month       == 24       \* month = 60 * 60 * 24 * 30

HistCoins == <<"btc", "eth">>   \* index_df["symbol"].str.lower()

MaxHistSlack == 4
HistStart    == Month + 7
MaxHistClock == HistStart + TwoDays + MaxHistSlack
FirstTrade   == HistStart - 3   \* trades_df["date"].min()

NoFrame == [none |-> TRUE, cols |-> {}, rows |-> <<>>]
Frame(cols, rows) == [none |-> FALSE, cols |-> cols, rows |-> rows]

\* DatetimeIndex.round(freq): to the nearest multiple of g, a tie going to
\* the even multiple.
RoundTo(t, g) ==
    LET lo == (t \div g) * g
        r  == t - lo
    IN  IF 2 * r < g THEN lo
        ELSE IF 2 * r > g THEN lo + g
        ELSE IF (lo \div g) % 2 = 0 THEN lo ELSE lo + g

\* The price points the provider returns for a range, oldest first.
RECURSIVE ProviderTimes(_, _)
ProviderTimes(from, to) ==
    IF from > to THEN <<>>
    ELSE IF from % FiveMinutes = 0
         THEN <<from>> \o ProviderTimes(from + 1, to)
         ELSE ProviderTimes(from + 1, to)

\* Index.duplicated(keep="first") dropped: the first row of each timestamp.
RECURSIVE DropDuplicated(_, _)
DropDuplicated(rows, seen) ==
    IF rows = <<>> THEN <<>>
    ELSE IF Head(rows).t \in seen
         THEN DropDuplicated(Tail(rows), seen)
         ELSE <<Head(rows)>> \o DropDuplicated(Tail(rows), seen \cup {Head(rows).t})

\* DataFrame.sort_index(), rows of one timestamp keeping their order.
RECURSIVE sort_index(_)
sort_index(rows) ==
    IF rows = <<>> THEN <<>>
    ELSE LET m     == CHOOSE i \in 1..Len(rows) :
                          /\ \A j \in 1..Len(rows) : rows[i].t <= rows[j].t
                          /\ \A j \in 1..(i - 1) : rows[j].t # rows[i].t
             rest  == [k \in 1..(Len(rows) - 1) |-> IF k < m THEN rows[k] ELSE rows[k + 1]]
         IN  <<rows[m]>> \o sort_index(rest)

\* The rows fetched by one call: the provider's points as they are for the
\* full build, reindexed on the rounding grid of the tier otherwise; every
\* row remembers the call that fetched it (at and tier); now marks the row of
\* the current prices.
Fetched(freq, from, to) ==
    LET raw == ProviderTimes(from, to)
        g   == IF freq = "H" THEN Hour ELSE FiveMinutes
    IN  IF freq = "None"
        THEN [i \in 1..Len(raw) |-> [t |-> raw[i], at |-> to, tier |-> freq, now |-> FALSE]]
        ELSE DropDuplicated([i \in 1..Len(raw) |->
                                [t |-> RoundTo(raw[i], g), at |-> to, tier |-> freq,
                                 now |-> FALSE]], {})

\* history_df with now_row appended (analytics.py 744-755).
WithNowRow(rows, freq, tnow, to) ==
    sort_index(rows \o <<[t |-> tnow, at |-> to, tier |-> freq, now |-> TRUE]>>)

\* The bounds of the mask of analytics.py 735-743 and 758.
TruncateFrom(freq, from, to, tnow) ==
    IF freq = "H" THEN from ELSE IF freq = "5T" THEN to - Day ELSE tnow
TruncateTo_FetchedWindow(freq, from, to, tnow) ==
    IF freq = "None" THEN tnow ELSE to
TruncateTo(freq, from, to, tnow) ==
    IF freq = "H" THEN to - Day ELSE tnow

\* analytics.py 757-760: the old rows outside the mask are appended to the
\* new ones, the first row of every timestamp is kept, and the index sorted.
Masked(old, tf, tt) == SelectSeq(old, LAMBDA p : p.t < tf \/ p.t > tt)
Merge(new, old, tf, tt) ==
    sort_index(DropDuplicated(new \o Masked(old, tf, tt), {}))

\* The branch of analytics.py 680-695.
Tier_DayFirst(h) ==
    IF h.history_df.none THEN "None"
    ELSE IF h.last_history_update_day < h.time - QuarterHour THEN "5T"
    ELSE IF h.last_history_update_month < h.time - TwoDays THEN "H"
    ELSE "return"
Tier(h) ==
    IF h.history_df.none THEN "None"
    ELSE IF h.last_history_update_month < h.time - TwoDays THEN "H"
    ELSE IF h.last_history_update_day < h.time - QuarterHour THEN "5T"
    ELSE "return"

FromTimestamp(freq, h) ==
    IF freq = "None" THEN FirstTrade - TwoDays
    ELSE IF freq = "H" THEN h.time - Month
    ELSE h.time - Day

NoCall == [freq |-> "idle", from |-> 0, to |-> 0, requests |-> 0, result |-> "idle"]

\* One call of update_historical_prices; fail is the position in HistCoins of
\* the coin whose request ends in HTTPError, 0 when every request answers.
update_historical_prices(h, fail) ==
    IF h.last_market_update = 0
    THEN [h EXCEPT !.call = [NoCall EXCEPT !.freq = "return", !.result = "return"],
                   !.flip = ~@]
    ELSE
    LET freq == Tier(h)
        from == FromTimestamp(freq, h)
        to   == h.time
        tnow  == h.time
        h1   == [h EXCEPT !.last_history_update_month = IF freq = "H" THEN h.time ELSE @,
                          !.last_history_update_day   = IF freq = "5T" THEN h.time ELSE @,
                          !.flip = ~@]
        new  == WithNowRow(Fetched(freq, from, to), freq, tnow, to)
        tf   == TruncateFrom(freq, from, to, tnow)
        tt   == TruncateTo(freq, from, to, tnow)
    IN  IF freq = "return"
        THEN [h1 EXCEPT !.call = [NoCall EXCEPT !.freq = "return", !.result = "return"]]
        ELSE IF fail # 0
        THEN [h1 EXCEPT !.call = [freq |-> freq, from |-> from, to |-> to,
                                  requests |-> fail, result |-> "HTTPError"]]
        ELSE [h1 EXCEPT !.call = [freq |-> freq, from |-> from, to |-> to,
                                  requests |-> Len(HistCoins), result |-> "ok"],
                        !.history_df =
                            IF h.history_df.none
                            THEN Frame(Range(HistCoins), new)
                            ELSE Frame(Range(HistCoins), Merge(new, h.history_df.rows, tf, tt))]

HistoryInit ==
    /\ hist = [last_market_update |-> 0, history_df |-> NoFrame,
               last_history_update_month |-> 0, last_history_update_day |-> 0,
               time |-> HistStart, flip |-> FALSE, call |-> NoCall]
    /\ rfr = <<>> /\ wtr = <<>> /\ mkt = <<>>
    /\ inp = NoOut /\ outp = NoOut /\ stage = "history"
    /\ SchedIdle /\ LedIdle

HistKeep == UNCHANGED <<rfr, wtr, mkt, pureVars, schedVars, ledVars>>

\* The first success of update_markets (analytics.py 510); the later ones
\* change nothing the history reads.
HistoryMarketsLoaded ==
    /\ hist.last_market_update = 0
    /\ hist' = [hist EXCEPT !.last_market_update = hist.time]
    /\ HistKeep

UpdateHistoricalPrices ==
    /\ \E fail \in 0..Len(HistCoins) : hist' = update_historical_prices(hist, fail)
    /\ HistKeep

HistoryTick ==
    /\ \E d \in {FiveMinutes, Day, TwoDays + FiveMinutes} :
           /\ hist.time + d <= MaxHistClock
           /\ hist' = [hist EXCEPT !.time = @ + d]
    /\ HistKeep

HistoryNext ==
    \/ HistoryMarketsLoaded
    \/ UpdateHistoricalPrices
    \/ HistoryTick

SpecHistory == HistoryInit /\ [][HistoryNext]_vars

FreshRow(p) == p.at = hist'.call.to /\ p.tier = hist'.call.freq
Increasing(rows) == \A i, j \in 1..Len(rows) : i < j => rows[i].t < rows[j].t
Merged == /\ hist'.flip # hist.flip
          /\ hist'.call.result = "ok"
          /\ ~hist.history_df.none

\* C28 (as stated): a merge keeps every old point outside the fetched range
\* [from_timestamp, to_timestamp], drops every old point inside it, and
\* publishes strictly increasing timestamps.
C28_FetchedWindowReplaced ==
    [][Merged =>
        LET c   == hist'.call
            old == Range(hist.history_df.rows)
            new == Range(hist'.history_df.rows)
        IN  /\ \A p \in old : (p.t < c.from \/ p.t > c.to) => p \in new
            /\ \A p \in old : (c.from <= p.t /\ p.t <= c.to) => p \notin new
            /\ Increasing(hist'.history_df.rows)
    ]_vars

\* C28: a merge drops the old points of the purged range, which is the
\* fetched range without its last day for the month tier and the last day up
\* to now for the day tier; it keeps every old point outside the purged range
\* unless a fresh point has the same timestamp, and then the fresh one is
\* published; every fresh point is published, and the timestamps of the
\* published series are strictly increasing.
C28_PurgedRangeReplaced ==
    [][Merged =>
        LET c    == hist'.call
            old  == Range(hist.history_df.rows)
            new  == Range(hist'.history_df.rows)
            lo   == IF c.freq = "H" THEN c.from ELSE c.to - Day
            hi   == IF c.freq = "H" THEN c.to - Day ELSE c.to
        IN  /\ \A p \in old : (p.t < lo \/ p.t > hi) =>
                   \/ p \in new
                   \/ \E q \in new : FreshRow(q) /\ q.t = p.t
            /\ \A p \in old : (lo <= p.t /\ p.t <= hi) => p \notin new
            /\ \A q \in new : q \in old \/ FreshRow(q)
            /\ \E q \in new : FreshRow(q) /\ q.now /\ q.t = c.to
            /\ Increasing(hist'.history_df.rows)
    ]_vars

\* A month-tier merge into a series that holds day-tier points of the last
\* day, which stay published.
C28_Witness ==
    /\ hist # <<>>
    /\ hist.call.freq = "H" /\ hist.call.result = "ok"
    /\ \E i \in 1..Len(hist.history_df.rows) :
           LET p == hist.history_df.rows[i]
           IN  p.tier = "5T" /\ p.at < hist.call.to /\ p.t > hist.call.to - Day

-----------------------------------------------------------------------------
\* Concurrent calls of update_historical_prices (the refresh thread of
\* run_api_updates and the callback of dashboard_app.py 304-308) next to a
\* reader (compute_value_history).  A call is cut where another thread can
\* run: after the branch of lines 680-695, at the lock, after every request
\* of the loop, after the merge of lines 727-760, and at the assignment of
\* line 761 that ends the with block.

Updaters     == {"refresh", "dashboard"}
MaxRaceClock == HistStart + Day

IdleUpdate == [pc |-> "idle", freq |-> "return", from |-> 0, to |-> 0, i |-> 1,
               cols |-> {}, tnow |-> 0, rows |-> <<>>]

\* Lock.acquire() goes through when no thread holds the lock.
LockFree_Always(h) == TRUE
LockFree(h) == h.lock = "free"

HistoryRaceInit ==
    /\ hist = [last_market_update |-> HistStart, history_df |-> NoFrame,
               last_history_update_month |-> 0, last_history_update_day |-> 0,
               time |-> HistStart, lock |-> "free",
               upd |-> [u \in Updaters |-> IdleUpdate], seen |-> NoFrame]
    /\ rfr = <<>> /\ wtr = <<>> /\ mkt = <<>>
    /\ inp = NoOut /\ outp = NoOut /\ stage = "history"
    /\ SchedIdle /\ LedIdle

\* Lines 674-695: the tier is chosen and its time stamp set before the lock.
RaceDecide(u) ==
    /\ hist.upd[u].pc = "idle"
    /\ hist.last_market_update # 0
    /\ Tier(hist) # "return"
    /\ LET freq == Tier(hist)
       IN  hist' = [hist EXCEPT
               !.last_history_update_month = IF freq = "H" THEN hist.time ELSE @,
               !.last_history_update_day   = IF freq = "5T" THEN hist.time ELSE @,
               !.upd[u] = [IdleUpdate EXCEPT !.pc = "wait", !.freq = freq,
                                             !.from = FromTimestamp(freq, hist),
                                             !.to = hist.time]]
    /\ HistKeep

\* Line 697.
RaceAcquire(u) ==
    /\ hist.upd[u].pc = "wait"
    /\ LockFree(hist)
    /\ hist' = [hist EXCEPT !.lock = u, !.upd[u].pc = "fetch"]
    /\ HistKeep

\* Lines 699-725: one request of the loop; its answer joins the local frame,
\* HTTPError leaves the function and the with block.
RaceFetch(u) ==
    /\ hist.upd[u].pc = "fetch"
    /\ hist.upd[u].i <= Len(HistCoins)
    /\ \E ok \in BOOLEAN :
           hist' = IF ok
                   THEN [hist EXCEPT !.upd[u].cols = @ \cup {HistCoins[hist.upd[u].i]},
                                     !.upd[u].i = @ + 1]
                   ELSE [hist EXCEPT !.upd[u] = IdleUpdate,
                                     !.lock = IF @ = u THEN "free" ELSE @]
    /\ HistKeep

\* Lines 727-760: the local frame is put on the grid, gets the row of the
\* current prices and the old rows outside the mask.
RaceMerge(u) ==
    /\ hist.upd[u].pc = "fetch"
    /\ hist.upd[u].i > Len(HistCoins)
    /\ LET l   == hist.upd[u]
           new == WithNowRow(Fetched(l.freq, l.from, l.to), l.freq, hist.time, l.to)
           tf  == TruncateFrom(l.freq, l.from, l.to, hist.time)
           tt  == TruncateTo(l.freq, l.from, l.to, hist.time)
       IN  hist' = [hist EXCEPT
               !.upd[u].pc = "swap",
               !.upd[u].tnow = hist.time,
               !.upd[u].rows = IF hist.history_df.none THEN new
                               ELSE Merge(new, hist.history_df.rows, tf, tt)]
    /\ HistKeep

\* Line 761 and the end of the with block.
RaceSwap(u) ==
    /\ hist.upd[u].pc = "swap"
    /\ hist' = [hist EXCEPT !.history_df = Frame(hist.upd[u].cols, hist.upd[u].rows),
                            !.upd[u] = IdleUpdate,
                            !.lock = IF @ = u THEN "free" ELSE @]
    /\ HistKeep

\* compute_value_history copies self.history_df without the lock (763-771).
RaceRead ==
    /\ hist.seen # hist.history_df
    /\ hist' = [hist EXCEPT !.seen = hist.history_df]
    /\ HistKeep

RaceTick ==
    /\ hist.time + Day <= MaxRaceClock
    /\ hist' = [hist EXCEPT !.time = @ + Day]
    /\ HistKeep

HistoryRaceNext ==
    \/ \E u \in Updaters : RaceDecide(u)
    \/ \E u \in Updaters : RaceAcquire(u)
    \/ \E u \in Updaters : RaceFetch(u)
    \/ \E u \in Updaters : RaceMerge(u)
    \/ \E u \in Updaters : RaceSwap(u)
    \/ RaceRead
    \/ RaceTick

SpecHistoryRace == HistoryRaceInit /\ [][HistoryRaceNext]_vars

InLockedSection(u) == hist.upd[u].pc \in {"fetch", "swap"}

\* C27: two updates are never inside the fetch-merge-swap section together;
\* what a reader has copied is no series or one with every symbol; and the
\* series changes only by one assignment that publishes the rows fetched for
\* every symbol merged into the series that was published until then.
C27_LockedSwap ==
    /\ [](\A u, v \in Updaters : InLockedSection(u) /\ InLockedSection(v) => u = v)
    /\ [](hist.seen.none \/ hist.seen.cols = Range(HistCoins))
    /\ [][hist'.history_df # hist.history_df =>
            \E u \in Updaters :
                LET l   == hist.upd[u]
                    new == WithNowRow(Fetched(l.freq, l.from, l.to), l.freq, l.tnow, l.to)
                IN  /\ l.pc = "swap"
                    /\ hist'.history_df.cols = Range(HistCoins)
                    /\ hist'.history_df.rows =
                           IF hist.history_df.none THEN new
                           ELSE Merge(new, hist.history_df.rows,
                                      TruncateFrom(l.freq, l.from, l.to, l.tnow),
                                      TruncateTo(l.freq, l.from, l.to, l.tnow))
       ]_vars

\* A reader holds the previous series while an update that has fetched some
\* symbols waits for the others, and a second update waits for the lock.
C27_Witness ==
    /\ hist # <<>>
    /\ ~hist.seen.none
    /\ \E u, v \in Updaters :
           /\ hist.upd[u].pc = "fetch" /\ hist.upd[u].cols # {}
           /\ hist.upd[u].cols # Range(HistCoins)
           /\ hist.upd[v].pc = "wait"

-----------------------------------------------------------------------------
\* fetch_order behind redo.retrying (trading.py 350-352, analytics.py
\* 344-351): retrying(fetch_order, sleeptime=30, sleepscale=1, jitter=0,
\* retry_exceptions=(ccxt.errors.BaseError,)).  No attempts argument is
\* passed, so the call is made at most the five times of redo's default; an
\* exception of retry_exceptions is swallowed and the call repeated after the
\* sleep, except at the last attempt, where it is raised again.

RetryAttempts   == 5
RetryExceptions == {"BaseError"}
FetchAnswers    == {"BaseError", "open", "closed"}

\* (variant: after the last attempt the order is reported as still open)
Exhausted_AsOpen(e, n) == [raised |-> "none", status |-> "open", attempts |-> n]
Exhausted(e, n) == [raised |-> e, status |-> "none", attempts |-> n]

\* answers[n] is what the exchange does at the n-th call of fetch_order.
RECURSIVE retrying(_, _)
retrying(answers, n) ==
    IF answers[n] \notin RetryExceptions
    THEN [raised |-> "none", status |-> answers[n], attempts |-> n]
    ELSE IF n >= RetryAttempts
    THEN Exhausted(answers[n], n)
    ELSE retrying(answers, n + 1)

\* The call site: order = fetch_order(id, symbol) stands in no try block, so
\* what retrying raises leaves check_orders and update_trades_df.
fetch_order(answers) == retrying(answers, 1)

RetryInit ==
    /\ inp \in [1..(RetryAttempts + 1) -> FetchAnswers]
    /\ outp = NoOut
    /\ stage = "input"
    /\ SchedIdle /\ LedIdle /\ AuxIdle

RetryApply ==
    /\ stage = "input"
    /\ outp' = fetch_order(inp)
    /\ stage' = "done"
    /\ UNCHANGED <<inp, schedVars, ledVars, auxVars>>

RetryNext == RetryApply

SpecRetry == RetryInit /\ [][RetryNext]_vars

\* C29: fetch_order is called at most RetryAttempts times; when every one of
\* these calls fails with the exchange error, that error is raised to the
\* caller and no status is returned; when one of them answers, the first
\* answer is the status returned and no error is raised.
C29_BoundedRetryThenRaise ==
    stage = "done" =>
        LET failing == {n \in 1..RetryAttempts : inp[n] = "BaseError"}
        IN  /\ outp.attempts \in 1..RetryAttempts
            /\ \A n \in 1..(outp.attempts - 1) : n \in failing
            /\ failing = 1..RetryAttempts =>
                   /\ outp.raised = "BaseError" /\ outp.status = "none"
                   /\ outp.attempts = RetryAttempts
            /\ failing # 1..RetryAttempts =>
                   /\ outp.raised = "none"
                   /\ outp.attempts \notin failing
                   /\ outp.status = inp[outp.attempts]

\* Every attempt has failed although the exchange would have answered the
\* next one.
C29_Witness ==
    /\ stage = "done" /\ DOMAIN inp = 1..(RetryAttempts + 1)
    /\ \A n \in 1..RetryAttempts : inp[n] = "BaseError"
    /\ inp[RetryAttempts + 1] = "closed"
    /\ outp.raised = "BaseError"

-----------------------------------------------------------------------------
\* C30: a symbol that check_order_executable has put in problems.skip_coins
\* (its order falls below the minimum amount or cost of the market) gets no
\* create-order call from weighted_buy_order in that batch.
C30_SkippedCoinNotSubmitted ==
    (stage = "done" /\ outp.raised = "none") =>
        \A j \in 1..Len(outp.problems.skip_coins) :
            \A k \in 1..Len(outp.calls) :
                outp.calls[k].ticker # Ticker(outp.problems.skip_coins[j])

-----------------------------------------------------------------------------
\* The create-order calls of the batch the exchange has accepted.
AcceptedCalls ==
    {k \in 1..Len(outp.calls) :
        \E i \in 1..Len(inp.symbols) :
            /\ ~IsBase(inp.symbols[i])
            /\ outp.calls[k].ticker = Ticker(inp.symbols[i])
            /\ inp.env.outcome[Lower(inp.symbols[i])] = "ok"}

\* C31: when the exchange has accepted an order of the batch,
\* weighted_buy_order returns its report (it does not raise), and the report
\* holds the symbol and an order id of every accepted order, whatever the
\* later symbols of the batch run into.
C31_NoPlacedOrderLost ==
    (stage = "done" /\ AcceptedCalls # {}) =>
        /\ outp.raised = "none"
        /\ outp.complete
        /\ \A k \in AcceptedCalls :
               \E j \in 1..Len(outp.symbols) :
                   /\ outp.symbols[j] = outp.calls[k].ticker
                   /\ outp.ids[j].real

-----------------------------------------------------------------------------
\* C32: the lock is held exactly while one invocation of job is between its
\* acquire and the end of its finally clause, so it is free whenever every
\* invocation that acquired it has returned, whichever way it went (day not
\* in the list, order_planning false or raising, execute_order failing or
\* placing, the question asked); and the lock is released only by the
\* invocation that acquired it, never by one whose acquire failed.
C32_LockReleasedOnEveryPath ==
    /\ [](lock <=> \E t \in Triggers : tpc[t] \in InCriticalSection)
    /\ []((\A t \in Triggers : tpc[t] \in {"idle", "done"}) => ~lock)
    /\ [][(lock /\ ~lock') =>
             \E t \in Triggers :
                 /\ sched.acquired[t]
                 /\ tpc[t] = "fin" /\ tpc'[t] = "done"
                 /\ \A u \in Triggers \ {t} : tpc'[u] = tpc[u]
       ]_vars
    /\ [][\A t \in Triggers :
             (~sched.acquired'[t] /\ tpc[t] # tpc'[t]) => lock' = lock
       ]_vars

\* An invocation that planned and submitted nothing has returned, and the
\* trigger after it holds the lock.
C32_Witness ==
    \E t, u \in Triggers :
        /\ t # u
        /\ tpc[t] = "done" /\ sched.acquired[t] /\ sched.planned[t]
        /\ sched.submitted[t] = 0
        /\ sched.acquired[u] /\ tpc[u] \in InCriticalSection /\ lock

-----------------------------------------------------------------------------
\* The refresh thread: run_updates of run_api_updates (analytics.py 85-92)
\* and update_data (94-114).  The coroutines handed to asyncio.gather hold no
\* await that suspends them, so each runs to its end in the order given, and
\* update_data is resumed with the first exception any of them raised.
\*   rfr.pc     : "gather", "except", "sleep", or "dead" once an exception
\*                has left run_updates
\*   rfr.i      : the task of the cycle that runs next
\*   rfr.first  : the first exception raised in the cycle, "none" if none
\*   rfr.log    : what the handler of the last cycle logged
\*   rfr.slept  : seconds of sleep(5) that have passed
\*   rfr.cycles : cycles started, counted up to MaxCycles

RefreshTasks ==
    <<"update_markets", "update_order_ids", "update_trades_df", "update_index_df",
      "update_portfolio_metrics", "update_historical_prices", "update_exchange_balance">>

NetworkErrors == {"RequestException", "ConnectionError", "NetworkError"}
TaskErrors    == NetworkErrors \cup {"ValidationError", "ValueError"}

SleepSeconds == 5
MaxCycles    == 2

\* (variant: update_data without its except Exception clause)
Handler_NetworkOnly(e) ==
    IF e \in NetworkErrors THEN "warning" ELSE "raise"

\* analytics.py 105-114: the except clauses of update_data
Handler(e) ==
    IF e \in NetworkErrors THEN "warning" ELSE "error"

RefreshLoopInit ==
    /\ rfr = [pc |-> "gather", i |-> 1, first |-> "none", log |-> "none",
              slept |-> 0, cycles |-> 1]
    /\ wtr = <<>> /\ mkt = <<>> /\ hist = <<>>
    /\ inp = NoOut /\ outp = NoOut /\ stage = "refresh"
    /\ SchedIdle /\ LedIdle

RefreshKeep == UNCHANGED <<wtr, mkt, hist, pureVars, schedVars, ledVars>>

\* one task of the gather runs and returns or raises
RunTask ==
    /\ rfr.pc = "gather"
    /\ rfr.i <= Len(RefreshTasks)
    /\ \E e \in TaskErrors \cup {"none"} :
           rfr' = [rfr EXCEPT !.i = @ + 1,
                              !.first = IF @ = "none" THEN e ELSE @]
    /\ RefreshKeep

\* await asyncio.gather(...) returns or raises the first exception
GatherDone ==
    /\ rfr.pc = "gather"
    /\ rfr.i > Len(RefreshTasks)
    /\ rfr' = [rfr EXCEPT !.pc = IF rfr.first = "none" THEN "sleep" ELSE "except",
                          !.log = "none", !.slept = 0]
    /\ RefreshKeep

\* the except clauses; an exception none of them takes leaves asyncio.run
\* and the while loop
HandleError ==
    /\ rfr.pc = "except"
    /\ rfr' = IF Handler(rfr.first) = "raise"
              THEN [rfr EXCEPT !.pc = "dead"]
              ELSE [rfr EXCEPT !.pc = "sleep", !.log = Handler(rfr.first), !.slept = 0]
    /\ RefreshKeep

\* sleep(5), a second at a time
Sleep ==
    /\ rfr.pc = "sleep"
    /\ rfr.slept < SleepSeconds
    /\ rfr' = [rfr EXCEPT !.slept = @ + 1]
    /\ RefreshKeep

\* while True: the next asyncio.run(self.update_data())
NextCycle ==
    /\ rfr.pc = "sleep"
    /\ rfr.slept >= SleepSeconds
    /\ rfr' = [rfr EXCEPT !.pc = "gather", !.i = 1, !.first = "none",
                          !.cycles = IF @ < MaxCycles THEN @ + 1 ELSE @]
    /\ RefreshKeep

RefreshLoopNext ==
    \/ RunTask
    \/ GatherDone
    \/ HandleError
    \/ Sleep
    \/ NextCycle

\* the thread is a daemon thread that keeps being scheduled
SpecRefreshLoop ==
    RefreshLoopInit /\ [][RefreshLoopNext]_vars /\ WF_vars(RefreshLoopNext)

CycleStart == rfr.pc = "gather" /\ rfr.i = 1

\* C33: no exception of a refresh task ends the loop: it is logged by
\* update_data, as a warning for a network error and as an error otherwise;
\* a cycle starts only after the 5 seconds of sleep that follow the cycle
\* before it; and whatever the tasks raise, a new cycle starts again and
\* again.
C33_RefreshLoopNeverStops ==
    /\ [](rfr.pc # "dead")
    /\ []((rfr.pc = "sleep" /\ rfr.first # "none") =>
              rfr.log = (IF rfr.first \in NetworkErrors THEN "warning" ELSE "error"))
    /\ [][(~CycleStart /\ CycleStart') =>
              (rfr.pc = "sleep" /\ rfr.slept = SleepSeconds)]_vars
    /\ []<>CycleStart
    /\ (rfr.pc = "except") ~> CycleStart

\* A cycle after the first has started although a task of the cycle before
\* it raised an exception that is no network error.
C33_Witness ==
    /\ rfr # <<>>
    /\ rfr.cycles = MaxCycles
    /\ CycleStart
    /\ rfr.log = "error"

-----------------------------------------------------------------------------
\* C34: a call of update_historical_prices one of whose requests fails
\* leaves the published series as it was and does not mark the tier it chose
\* as refreshed, so that a call made right after it chooses the same tier.
C34_FailedTierTriedAgain ==
    [][(hist'.flip # hist.flip /\ hist'.call.result = "HTTPError") =>
        /\ hist'.history_df = hist.history_df
        /\ hist'.last_history_update_month = hist.last_history_update_month
        /\ hist'.last_history_update_day = hist.last_history_update_day
        /\ Tier(hist') = hist'.call.freq
    ]_vars

-----------------------------------------------------------------------------
\* The quantities of the claim, from the inputs of the call: for the target
\* weights w, error[i] = value[i] - w[i] * sum(value), the raw volumes
\* V * w[i] - error[i], and the raw volumes clipped at 0.
RebalV == QInt(OrDefault(inp.volume, inp.cfg.cost))
RebalError(w) ==
    LET total == QSum(inp.index.values)
    IN  [i \in 1..Len(inp.index.symbols) |->
            QSub(inp.index.values[i], QMul(w[i], total))]
RebalClipped(w, err) ==
    [i \in 1..Len(inp.index.symbols) |->
        QMax(QZero, QSub(QMul(RebalV, w[i]), err[i]))]

=============================================================================
